---- MODULE Spec2Model ----
(***************************************************************************)
(* zkUSD services: the block orchestrator, its forked block worker, the    *)
(* event reconciler (EventProcessor), the event ledger (EventModel) and    *)
(* the vault reducer (VaultModel.updateFromEvent).                         *)
(*                                                                         *)
(* The specifications share the definitions below:                         *)
(*   Spec         the whole system: main process, worker, store            *)
(*   SpecWatch    the same with callers of the orchestrator's stop/start   *)
(*   SpecTicks    one run of the two processes with fair timers            *)
(*   SpecGrace    the same for every check interval of the environment     *)
(*   SpecRecon    the reconciler alone, over every short chain of events   *)
(*   SpecFrom     the reconciler alone, over every checkpoint document     *)
(*   SpecList     the reconciler alone, over vault and protocol events     *)
(*   SpecCycle    handleBlock alone, one call at a time                    *)
(*   SpecOverlap  the reconciler running for several requests at once      *)
(*   SpecReplay   the reconciler while pending transactions get included   *)
(*   SpecReducer  the reducer alone, a sequence of events applied twice    *)
(*   SpecLedger   storeFromEvent alone, two callers at once                *)
(*   SpecCollect  collectSubmissions alone, over oracle configurations     *)
(***************************************************************************)
EXTENDS Integers, Sequences, FiniteSets, TLC

VARIABLES
    \* ---- main process (part_007 = index.ts, orchestrator.ts) ----
    proc,                \* "off" | "starting" | "running" | "exited"
    exitCode,            \* code handed to process.exit, NoCode while alive
    blockWorker,         \* orchestrator.blockWorker is set
    currentBlockHeight,  \* Orchestrator.currentBlockHeight
    isWatching,          \* Orchestrator.isWatching
    isProcessing,        \* Orchestrator.isProcessing
    watchTimeout,        \* Orchestrator.watchTimeout: a timer id, 0 for null
    ticks,               \* timer id -> the check that timer drives
    graceArmed,          \* the 3000 ms exit timer of checkNewBlock is pending
    shutPc,              \* shutdown(): "none" | "waitExit", and the loop
                         \* "refused" | "uncaught" of a send with no listener
    errListeners,        \* a once('error') listener is set on the worker
    lastOutcome,         \* how the latest check ended, "none" while it runs
    \* ---- the IPC channel ----
    toWorker,            \* messages main -> worker, in order
    toMain,              \* messages worker -> main, in order
    exitEvent,           \* the worker's 'exit' event not yet delivered
    \* ---- worker process (block-worker.ts) ----
    wstate,              \* "off" | "starting" | "running" | "exited"
    wsig,                \* the worker's shutdown() is due or awaits the close
    worker,              \* handler -> its position and locals; now is the
                         \* new Date() of the write it has called and awaits
    \* ---- the store (MongoDB collections) ----
    tracker,             \* block_tracker collection (BlockTrackerModel)
    ledger,              \* events collection (EventModel), insertion order
    vaults,              \* vaults collection (VaultModel)
    proofs,              \* proofs collection (ProofModel), insertion order
    \* ---- environment ----
    chain,               \* the events the engine contract has emitted
    clock,               \* logical time: the value new Date() yields
    restarts,            \* times the supervisor restarted the process
    blockCheckInterval,  \* config.blockCheckInterval (BLOCKCHECK_INTERVAL)
    \* ---- history (read by the properties only) ----
    passStart,           \* the store as it was when the running pass started
    firstStart,          \* the store when the first pass of a retry series started
    passRaised,          \* an operation raised inside the latest pass
    prevFrom,            \* fromBlock of the latest request that failed
    \* ---- harnesses of SpecReducer, SpecLedger and SpecCollect ----
    rin,                 \* SpecReducer: the event sequence applied
    rpos,                \* SpecReducer: events applied so far
    ronce,               \* SpecReducer: the vaults after the first application
    sc,                  \* SpecLedger, SpecReducer: the store calls in progress
    oracleCfg,           \* SpecCollect: config.oracleKeys, .oracleWhitelist
    collected            \* SpecCollect: what the latest call returned

mainVars == <<proc, exitCode, blockWorker, currentBlockHeight, isWatching,
              isProcessing, watchTimeout, ticks, graceArmed, shutPc,
              errListeners, lastOutcome>>
ipcVars == <<toWorker, toMain, exitEvent>>
workerVars == <<wstate, wsig, worker>>
storeVars == <<tracker, ledger, vaults, proofs>>
envVars == <<chain, clock, restarts, blockCheckInterval>>
histVars == <<passStart, firstStart, passRaised, prevFrom>>
collectVars == <<oracleCfg, collected>>
harnessVars == <<rin, rpos, ronce, sc, collectVars>>
vars == <<mainVars, ipcVars, workerVars, storeVars, envVars, histVars,
          harnessVars>>

(***************************************************************************)
(* Bounds of the model.                                                    *)
(***************************************************************************)
MaxHead == 2        \* chain head heights are 0..MaxHead
MaxTimers == 2      \* check timers that can exist at once
MaxCycles == 2      \* processBlock requests sent over a run
MaxShutdowns == 2   \* shutdown messages in the worker's queue at a time
MaxRestarts == 1    \* supervisor restarts
MaxLen == 2         \* longest event sequence of SpecReducer
MaxChain == 2       \* longest event chain of SpecRecon
MaxPasses == 2      \* processEvents calls in SpecRecon
MaxStores == 3      \* storeFromEvent calls in SpecLedger
MaxParticipants == 3  \* slots of a whitelist (OracleWhitelist.MAX_PARTICIPANTS)

(***************************************************************************)
(* Values.                                                                 *)
(***************************************************************************)
NoCode == 0 - 1                \* no exit code yet
NoAmt == 0 - 1                 \* a Decimal128 field the document lacks
NoBlock == 0 - 1               \* no block height recorded
NoStr == "unset"               \* a String field the document lacks

\* The message of an Error, as the sequence of its words; NoError where
\* nothing was raised.
NoError == <<>>

\* text.includes(part): the words of part occur in text one after another.
Includes(text, part) ==
    \E i \in 0..(Len(text) - Len(part)) :
        SubSeq(text, i + 1, i + Len(part)) = part

\* types/event.ts VaultEventTypes
VaultEventTypes == {"NewVault", "VaultOwnerUpdated", "DepositCollateral",
                    "RedeemCollateral", "MintZkUsd", "BurnZkUsd", "Liquidate"}
\* types/event.ts ProtocolEventTypes
ProtocolEventTypes == {"EmergencyStopToggled", "ValidPriceBlockCountUpdated",
                       "AdminUpdated", "OracleWhitelistUpdated"}

Hashes == {"h1", "h2"}
Statuses == {"pending", "included"}
Addrs == {"A", "B"}
Variants == {1, 2}

\* An event as engine.fetchEvents returns it. The payload of variant v:
\* owner / newOwner "o<v>", amounts (50 v, 30 v); fields the type does not
\* carry are unset.
MkEvent(ty, h, st, a, v) ==
    [type |-> ty, hash |-> h, status |-> st, height |-> v, addr |-> a,
     owner |-> IF ty = "NewVault" THEN (IF v = 1 THEN "o1" ELSE "o2") ELSE NoStr,
     newOwner |-> IF ty = "VaultOwnerUpdated"
                  THEN (IF v = 1 THEN "o1" ELSE "o2") ELSE NoStr,
     coll |-> IF ty \in {"DepositCollateral", "RedeemCollateral",
                         "MintZkUsd", "BurnZkUsd"} THEN 50 * v ELSE NoAmt,
     debt |-> IF ty \in {"DepositCollateral", "RedeemCollateral",
                         "MintZkUsd", "BurnZkUsd"} THEN 30 * (v - 1) ELSE NoAmt]

\* All sequences over S of length 0..n.
SeqsUpTo(S, n) == UNION {[1..k -> S] : k \in 0..n}

(***************************************************************************)
(* Vault reducer: VaultSchema.statics.updateFromEvent.                     *)
(***************************************************************************)
\* new mongoose.Types.Decimal128(x.toString()) of a UInt64 x: the decimal
\* string of x is read back exactly (UInt64 has at most 20 digits,
\* Decimal128 holds 34), so the stored amount is the number itself.
Decimal128(n) == n

\* this.findOne({ address })
FindVault(vs, a) == {v \in vs : v.address = a}

\* The $set document built in updateData (lines 78-126): the fields the
\* event type assigns; a field left out is absent from the record.
UpdateDataAccumulate(old, e, now) ==
    LET base == [lastUpdateBlock |-> e.height, lastUpdateTimestamp |-> now,
                 latestTransactionHash |-> e.hash]
        prev(f) == IF old = {} THEN 0
                   ELSE LET o == CHOOSE v \in old : TRUE
                        IN IF o[f] = NoAmt THEN 0 ELSE o[f]
    IN  CASE e.type = "NewVault" ->
               base @@ [collateralAmount |-> Decimal128(0),
                        debtAmount |-> Decimal128(0), owner |-> e.owner]
          [] e.type = "VaultOwnerUpdated" -> base @@ [owner |-> e.newOwner]
          [] e.type \in {"DepositCollateral", "RedeemCollateral",
                         "MintZkUsd", "BurnZkUsd"} ->
               base @@ [collateralAmount |->
                            Decimal128(prev("collateralAmount") + e.coll),
                        debtAmount |-> Decimal128(prev("debtAmount") + e.debt)]
          [] e.type = "Liquidate" ->
               base @@ [collateralAmount |-> Decimal128(0),
                        debtAmount |-> Decimal128(0)]
          [] OTHER -> base

\* A $set document in which an owner update also clears the amounts.
UpdateDataResetOnOwner(old, e, now) ==
    LET base == [lastUpdateBlock |-> e.height, lastUpdateTimestamp |-> now,
                 latestTransactionHash |-> e.hash]
    IN  CASE e.type = "NewVault" ->
               base @@ [collateralAmount |-> Decimal128(0),
                        debtAmount |-> Decimal128(0), owner |-> e.owner]
          [] e.type = "VaultOwnerUpdated" ->
               base @@ [owner |-> e.newOwner,
                        collateralAmount |-> Decimal128(0),
                        debtAmount |-> Decimal128(0)]
          [] e.type \in {"DepositCollateral", "RedeemCollateral",
                         "MintZkUsd", "BurnZkUsd"} ->
               base @@ [collateralAmount |-> Decimal128(e.coll),
                        debtAmount |-> Decimal128(e.debt)]
          [] e.type = "Liquidate" ->
               base @@ [collateralAmount |-> Decimal128(0),
                        debtAmount |-> Decimal128(0)]
          [] OTHER -> base

UpdateData(old, e, now) ==
    LET base == [lastUpdateBlock |-> e.height, lastUpdateTimestamp |-> now,
                 latestTransactionHash |-> e.hash]
    IN  CASE e.type = "NewVault" ->
               base @@ [collateralAmount |-> Decimal128(0),
                        debtAmount |-> Decimal128(0), owner |-> e.owner]
          [] e.type = "VaultOwnerUpdated" -> base @@ [owner |-> e.newOwner]
          [] e.type \in {"DepositCollateral", "RedeemCollateral",
                         "MintZkUsd", "BurnZkUsd"} ->
               base @@ [collateralAmount |-> Decimal128(e.coll),
                        debtAmount |-> Decimal128(e.debt)]
          [] e.type = "Liquidate" ->
               base @@ [collateralAmount |-> Decimal128(0),
                        debtAmount |-> Decimal128(0)]
          [] OTHER -> base

\* The document an upsert inserts when no vault matches: the filter's
\* address and nothing else (update validators are off, no defaults).
BlankVault(a) ==
    [address |-> a, owner |-> NoStr, collateralAmount |-> NoAmt,
     debtAmount |-> NoAmt, lastUpdateBlock |-> NoBlock,
     lastUpdateTimestamp |-> NoBlock, latestTransactionHash |-> NoStr]

\* this.findOneAndUpdate({ address }, updateData, { upsert: true })
UpsertVault(vs, a, upd) ==
    LET old == FindVault(vs, a)
        doc == IF old = {} THEN BlankVault(a) ELSE CHOOSE v \in old : TRUE
    IN  (vs \ old) \cup {upd @@ doc}

\* A guard that holds for every event on a vault that exists.
SameVault(vs, e) == FindVault(vs, e.addr) # {}

\* The guard of lines 70-76: the vault's latest hash is the event's.
SameTransaction(vs, e) ==
    \E v \in FindVault(vs, e.addr) : v.latestTransactionHash = e.hash

\* updateFromEvent when no other write of the vault comes between its
\* findOne and its findOneAndUpdate: the vaults afterwards, and the Boolean
\* it returns.
UpdateFromEventVaults(vs, e, now) ==
    IF SameTransaction(vs, e) THEN vs
    ELSE UpsertVault(vs, e.addr, UpdateData(FindVault(vs, e.addr), e, now))

UpdateFromEventChanged(vs, e) == ~SameTransaction(vs, e)

(***************************************************************************)
(* Event ledger: EventSchema and EventSchema.statics.storeFromEvent.       *)
(***************************************************************************)
\* eventData of storeFromEvent (lines 216-227): heights become Numbers,
\* amounts Decimal128, keys base58 strings (convertO1jsObject).
EventData(e) ==
    [blockHeight |-> e.height, chainStatus |-> e.status, type |-> e.type,
     transactionHash |-> e.hash,
     data |-> [vaultAddress |-> e.addr, owner |-> e.owner,
               newOwner |-> e.newOwner,
               vaultCollateralAmount |->
                   IF e.coll = NoAmt THEN NoAmt ELSE Decimal128(e.coll),
               vaultDebtAmount |->
                   IF e.debt = NoAmt THEN NoAmt ELSE Decimal128(e.debt)]]

\* A filter on the transaction hash alone.
MatchByHash(l, e) == {i \in 1..Len(l) : l[i].transactionHash = e.hash}

\* A filter that finds nothing.
MatchNone(l, e) == {}

\* The filter both EventModel.findOne (processEvents) and storeFromEvent
\* use: the positions of the documents with the event's compound key.
MatchEvent(l, e) ==
    {i \in 1..Len(l) : l[i].transactionHash = e.hash
                       /\ l[i].chainStatus = e.status}

\* The unique index on (transactionHash, chainStatus): an insert of doc is
\* refused when a document with its key is there.
NoUniqueIndex(l, doc) == TRUE

UniqueIndexAllows(l, doc) ==
    \A i \in 1..Len(l) : ~(l[i].transactionHash = doc.transactionHash
                           /\ l[i].chainStatus = doc.chainStatus)

\* findOneAndUpdate(filter, eventData, { upsert: true }) once the filter
\* has been evaluated to the positions m: update the first match, or insert.
\* The result is [ok, ledger]; ok is FALSE for a duplicate key error.
UpsertEvent(l, e, m) ==
    IF m # {}
    THEN LET i == CHOOSE j \in m : \A k \in m : j <= k
         IN  [ok |-> TRUE, ledger |-> [l EXCEPT ![i] = EventData(e)]]
    ELSE IF UniqueIndexAllows(l, EventData(e))
         THEN [ok |-> TRUE, ledger |-> Append(l, EventData(e))]
         ELSE [ok |-> FALSE, ledger |-> l]

\* storeFromEvent with nothing running between the filter and the write.
StoreFromEvent(l, e) == UpsertEvent(l, e, MatchEvent(l, e)).ledger

\* A test that takes every event type for a vault event.
AnyEventType(ty) == TRUE

\* EventProcessor.isVaultEvent
isVaultEvent(ty) == ty \in VaultEventTypes

(***************************************************************************)
(* Initial values shared by the specifications.                            *)
(***************************************************************************)
TimerIds == 1..MaxTimers
FreeTick == [pc |-> "free", head |-> 0]
IdleHandler == [pc |-> "idle", target |-> 0, from |-> NoBlock,
                events |-> <<>>, i |-> 0, updated |-> <<>>, err |-> NoError,
                now |-> 0]
\* The handlers the worker's message listener can have started at once.
HandlerIds == 1..MaxCycles
IdleHandlers == [k \in HandlerIds |-> IdleHandler]
NoSnapshot == [phase |-> "none", tracker |-> {}, ledger |-> <<>>,
               vaults |-> {}, events |-> <<>>]
IdleCaller == [pc |-> "idle", req |-> <<>>, match |-> {}, last |-> "none"]

MainOff ==
    /\ proc = "off" /\ exitCode = NoCode /\ blockWorker = FALSE
    /\ currentBlockHeight = 0 /\ isWatching = FALSE /\ isProcessing = FALSE
    /\ watchTimeout = 0 /\ ticks = [t \in TimerIds |-> FreeTick]
    /\ graceArmed = FALSE /\ shutPc = "none" /\ lastOutcome = "none"
    /\ errListeners = FALSE
IpcEmpty == toWorker = <<>> /\ toMain = <<>> /\ exitEvent = NoCode
WorkerOff == wstate = "off" /\ wsig = FALSE /\ worker = IdleHandlers
StoreEmpty == tracker = {} /\ ledger = <<>> /\ vaults = {} /\ proofs = <<>>
HistEmpty == /\ passStart = NoSnapshot /\ firstStart = NoSnapshot
             /\ passRaised = FALSE /\ prevFrom = NoBlock
NoConfig == [chain |-> "local", oracleKeys |-> <<>>,
             oracleWhitelist |-> <<>>]
NoCollect == [blockHeight |-> NoBlock, submissions |-> <<>>]
CollectOff == oracleCfg = NoConfig /\ collected = NoCollect
HarnessOff == /\ rin = <<>> /\ rpos = 0 /\ ronce = {}
              /\ sc = [c \in 1..2 |-> IdleCaller]
              /\ CollectOff

(***************************************************************************)
(* Block tracker: BlockTrackerModel (the checkpoint).                      *)
(***************************************************************************)
\* eventProcessor.init(startBlock = 0): block-worker.ts calls init() with
\* no argument.
DefaultStartBlock == 0

\* BlockTrackerSchema.statics.getOrCreate
getOrCreate(tr, startBlock, now) ==
    IF tr # {} THEN tr
    ELSE {[lastProcessedBlock |-> startBlock, startBlock |-> startBlock,
           lastProcessedAt |-> now]}

\* The checkpoint's in-progress flag as the collection holds it.
\* BlockTrackerSchema declares lastProcessedBlock, lastProcessedAt,
\* lastError and startBlock only, and processEvents (lines 239-302) writes
\* lastProcessedBlock and lastProcessedAt only: no document has the flag.
InProgress(tr) ==
    \E b \in tr : "isProcessing" \in DOMAIN b /\ b["isProcessing"] = TRUE

\* A start that takes lastProcessedBlock as it is, 0 included.
FromLastProcessed(block) == block.lastProcessedBlock

\* processEvents lines 244-245: where the fetch starts.
FromBlock(block) ==
    IF block.lastProcessedBlock = 0 THEN block.startBlock
    ELSE block.lastProcessedBlock

\* A tracker that moves one block per pass instead of to the target.
AdvanceTrackerByOne(tr, blockHeight, now) ==
    {[b EXCEPT !.lastProcessedBlock = b.lastProcessedBlock + 1,
               !.lastProcessedAt = now] : b \in tr}

\* A pass that ends without writing the checkpoint.
TrackerNotAdvanced(tr, blockHeight, now) == tr

\* BlockTrackerModel.findOneAndUpdate({}, { lastProcessedBlock,
\* lastProcessedAt }) of lines 289-295.
AdvanceTracker(tr, blockHeight, now) ==
    {[b EXCEPT !.lastProcessedBlock = blockHeight, !.lastProcessedAt = now]
        : b \in tr}

\* this.engine.fetchEvents(UInt32.from(fromBlock)): the chain's events at
\* or above fromBlock, in chain order, with no upper bound.
FetchEvents(ch, from) == SelectSeq(ch, LAMBDA e : e.height >= from)

\* The network at the time of a pass: the events of the blocks up to the
\* head that triggered the pass have been emitted, later ones not yet.
MinedChain(ch, head) == SelectSeq(ch, LAMBDA e : e.height <= head)

(***************************************************************************)
(* The worker's message handlers: handleBlock and, inside it,              *)
(* EventProcessor.processEvents. One action per awaited operation; each    *)
(* operation either completes or raises. The listener of block-worker.ts   *)
(* line 136 starts a handler for every processBlock message, so several    *)
(* handlers can be between two awaits at once: worker[k] is the position   *)
(* and the locals of handler k, and each action is a step of one of them.  *)
(***************************************************************************)
PassPcs == {"fetch", "find", "store", "update", "upsert"}
HandlerPcs == {"collect", "proof", "save", "tracker"} \cup PassPcs

\* The message of the error that ends handleBlock, by the step that
\* raised. collectSubmissions catches everything and throws 'Failed to
\* collect oracle submissions' (oracle-aggregator.ts 66-69); generateProof
\* awaits AggregateOraclePrices.compute outside any try block, so what
\* compute raises leaves as it is (proof.ts 53-62), and wraps only the
\* failure of ProofModel.create (75-78); processEvents throws 'No block
\* found' when findOne returns no tracker (line 242) and rethrows what its
\* awaited operations raise (lines 240, 282-285, 298-301).
CollectionFailed == <<"Failed", "to", "collect", "oracle", "submissions">>
SaveFailed == <<"Failed", "to", "save", "proof">>
NoBlockFound == <<"No", "block", "found">>

\* new Error('Block processing timeout') of handleNewBlock
\* (orchestrator.ts line 173), the text checkNewBlock looks for (line 122).
TimeoutText == <<"Block", "processing", "timeout">>

\* Errors the sources do not make themselves: what
\* AggregateOraclePrices.compute, a store or chain operation, a startup
\* step of the worker or the head query raised. Their message is the
\* library's or the remote node's: the text named here, or a text in which
\* the words of the timeout message occur.
RawComputeError == <<"compute", "raised">>
RawStoreError == <<"operation", "raised">>
RawStartupError == <<"startup", "raised">>
RawHeadError == <<"head", "query", "raised">>
RawTexts(text) == {text, text \o TimeoutText}

\* A handler in which every error leaves unwrapped.
ErrorNeverWrapped(pc, tr, raw) == raw

ErrorOf(pc, tr, raw) ==
    CASE pc = "collect" -> CollectionFailed
      [] pc = "proof" -> raw
      [] pc = "save" -> SaveFailed
      [] pc = "tracker" /\ tr = {} -> NoBlockFound
      [] OTHER -> raw

\* The loop of processEvents (lines 256-287) reaches position i of the
\* fetched events evs. Past the last event the tracker update of lines
\* 289-295 is called, with the time of this moment as lastProcessedAt (line
\* 293), and awaited: the handler keeps that time until the update is
\* applied.
IssuedAt(evs, i) == IF i > Len(evs) THEN clock ELSE 0

\* The catch blocks of processEvents (lines 282-285 and 298-301): log the
\* error and throw it again, which ends handleBlock with the error.
SwallowInPass(w, raw) ==
    [w EXCEPT !.pc = "find", !.i = w.i + 1,
              !.now = IssuedAt(w.events, w.i + 1)]

RethrowInPass(w, raw) ==
    [w EXCEPT !.pc = "failed", !.err = raw, !.now = 0]

\* What the failed request's fetch started from (or would have).
FailedFrom(w) ==
    IF w.from # NoBlock THEN w.from
    ELSE IF tracker = {} THEN NoBlock
    ELSE FromBlock(CHOOSE b \in tracker : TRUE)

frameWorkerStep == <<mainVars, ipcVars, wstate, wsig, chain, clock,
                     restarts, blockCheckInterval, harnessVars>>

\* handleBlock line 94: collectSubmissions returned.
WorkerCollect ==
    \E k \in HandlerIds :
        /\ wstate = "running" /\ worker[k].pc = "collect"
        /\ worker' = [worker EXCEPT ![k].pc = "proof"]
        /\ UNCHANGED <<frameWorkerStep, storeVars, histVars>>

\* proof.generateProof lines 53-68: AggregateOraclePrices.compute returned
\* the proof and ProofModel.create is called with the record, whose
\* timestamp is the time of this moment (line 68), and awaited.
WorkerCompute ==
    \E k \in HandlerIds :
        /\ wstate = "running" /\ worker[k].pc = "proof"
        /\ worker' = [worker EXCEPT ![k].pc = "save", ![k].now = clock]
        /\ UNCHANGED <<frameWorkerStep, storeVars, histVars>>

\* A generateProof that returns without storing the record.
WorkerSkipsSave ==
    \E k \in HandlerIds :
        /\ wstate = "running" /\ worker[k].pc = "save"
        /\ worker' = [worker EXCEPT ![k].pc = "tracker", ![k].now = 0]
        /\ UNCHANGED <<frameWorkerStep, storeVars, histVars>>

\* proof.generateProof lines 66-74: ProofModel.create stored the record
\* it was called with and generateProof returned.
WorkerSaveProof ==
    \E k \in HandlerIds :
        /\ wstate = "running" /\ worker[k].pc = "save"
        /\ proofs' = Append(proofs, [blockHeight |-> worker[k].target,
                                     timestamp |-> worker[k].now])
        /\ worker' = [worker EXCEPT ![k].pc = "tracker", ![k].now = 0]
        /\ UNCHANGED <<frameWorkerStep, tracker, ledger, vaults, histVars>>

\* A failure that leaves a proof record behind.
WorkerFailsAfterWrite ==
    \E k \in HandlerIds :
        /\ wstate = "running" /\ worker[k].pc \in {"collect", "proof", "save"}
        /\ \E raw \in RawTexts(RawComputeError) :
              worker' = [worker EXCEPT
                            ![k].pc = "failed", ![k].now = 0,
                            ![k].err = ErrorOf(worker[k].pc, tracker, raw)]
        /\ prevFrom' = FailedFrom(worker[k])
        /\ proofs' = Append(proofs, [blockHeight |-> worker[k].target,
                                     timestamp |-> clock])
        /\ UNCHANGED <<frameWorkerStep, tracker, ledger, vaults, passStart,
                       firstStart, passRaised>>

\* collectSubmissions, compute or ProofModel.create raised (lines 66-69 of
\* oracle-aggregator.ts, 75-78 of proof.ts): handleBlock rethrows.
WorkerStepFails ==
    \E k \in HandlerIds :
        /\ wstate = "running" /\ worker[k].pc \in {"collect", "proof", "save"}
        /\ \E raw \in RawTexts(RawComputeError) :
              worker' = [worker EXCEPT
                            ![k].pc = "failed", ![k].now = 0,
                            ![k].err = ErrorOf(worker[k].pc, tracker, raw)]
        /\ prevFrom' = FailedFrom(worker[k])
        /\ UNCHANGED <<frameWorkerStep, storeVars, passStart, firstStart,
                       passRaised>>

\* processEvents lines 240-249: the tracker is read and fromBlock chosen.
PassBegin ==
    \E k \in HandlerIds :
        /\ wstate = "running" /\ worker[k].pc = "tracker"
        /\ tracker # {}
        /\ LET block == CHOOSE b \in tracker : TRUE
               from == FromBlock(block)
               snap == [phase |-> "first", tracker |-> tracker,
                        ledger |-> ledger, vaults |-> vaults,
                        events |-> <<>>]
           IN  /\ worker' = [worker EXCEPT ![k].pc = "fetch",
                                           ![k].from = from]
               /\ passStart' = snap
               /\ firstStart' = IF firstStart.phase = "failed"
                                THEN [firstStart EXCEPT !.phase = "retry"]
                                ELSE snap
        /\ passRaised' = FALSE
        /\ UNCHANGED <<frameWorkerStep, storeVars, prevFrom>>

\* processEvents lines 240-242, both outside the try block: findOne
\* raised, whatever the collection holds, and the error leaves as it is; or
\* findOne returned no tracker and 'No block found' is thrown.
PassBeginFails ==
    \E k \in HandlerIds :
        /\ wstate = "running" /\ worker[k].pc = "tracker"
        /\ \E raw \in RawTexts(RawStoreError) :
              \E msg \in {raw, ErrorOf(worker[k].pc, tracker, raw)} :
                 worker' = [worker EXCEPT ![k].pc = "failed", ![k].err = msg]
        /\ prevFrom' = FailedFrom(worker[k])
        /\ UNCHANGED <<frameWorkerStep, storeVars, passStart, firstStart,
                       passRaised>>

\* processEvents line 252: fetchEvents(fromBlock) returned. The call names
\* no upper bound: it returns what the contract has emitted when it runs,
\* the events of the blocks up to the network's head h at that moment,
\* which is the target of the request or a later block. The loop starts at
\* the first event.
PassFetch ==
    \E k \in HandlerIds :
        /\ wstate = "running" /\ worker[k].pc = "fetch"
        /\ \E h \in worker[k].target..MaxHead :
            LET evs == FetchEvents(MinedChain(chain, h), worker[k].from)
            IN  /\ worker' = [worker EXCEPT ![k].pc = "find", ![k].i = 1,
                                            ![k].updated = <<>>,
                                            ![k].events = evs,
                                            ![k].now = IssuedAt(evs, 1)]
                /\ passStart' = [passStart EXCEPT !.events = evs]
                /\ firstStart' = IF firstStart.phase = "first"
                                 THEN [firstStart EXCEPT !.events = evs]
                                 ELSE firstStart
        /\ UNCHANGED <<frameWorkerStep, storeVars, passRaised, prevFrom>>

\* processEvents lines 259-268: EventModel.findOne found the event's key
\* in the ledger; the event is skipped.
PassSkip ==
    \E k \in HandlerIds :
        /\ wstate = "running" /\ worker[k].pc = "find"
        /\ worker[k].i <= Len(worker[k].events)
        /\ MatchEvent(ledger, worker[k].events[worker[k].i]) # {}
        /\ worker' = [worker EXCEPT
              ![k].i = worker[k].i + 1,
              ![k].now = IssuedAt(worker[k].events, worker[k].i + 1)]
        /\ UNCHANGED <<frameWorkerStep, storeVars, histVars>>

\* processEvents lines 259-265: EventModel.findOne found nothing.
PassFind ==
    \E k \in HandlerIds :
        /\ wstate = "running" /\ worker[k].pc = "find"
        /\ worker[k].i <= Len(worker[k].events)
        /\ MatchEvent(ledger, worker[k].events[worker[k].i]) = {}
        /\ worker' = [worker EXCEPT ![k].pc = "store"]
        /\ UNCHANGED <<frameWorkerStep, storeVars, histVars>>

\* processEvents lines 270-274: storeFromEvent stored the event; for a
\* vault event updateFromEvent is called and awaits this.findOne.
PassStore ==
    \E k \in HandlerIds :
        /\ wstate = "running" /\ worker[k].pc = "store"
        /\ LET e == worker[k].events[worker[k].i]
           IN  /\ ledger' = StoreFromEvent(ledger, e)
               /\ worker' = IF isVaultEvent(e.type)
                            THEN [worker EXCEPT ![k].pc = "update"]
                            ELSE [worker EXCEPT
                                    ![k].pc = "find",
                                    ![k].i = worker[k].i + 1,
                                    ![k].now = IssuedAt(worker[k].events,
                                                        worker[k].i + 1)]
        /\ UNCHANGED <<frameWorkerStep, tracker, vaults, proofs, histVars>>

\* updateFromEvent lines 70-76: this.findOne({ address }) returned. When
\* the vault it found has the event's hash the call returns false and the
\* loop goes on; else updateData is built, with the time of this moment
\* (line 80), and findOneAndUpdate is awaited.
PassGuard ==
    \E k \in HandlerIds :
        /\ wstate = "running" /\ worker[k].pc = "update"
        /\ LET e == worker[k].events[worker[k].i]
           IN  worker' = IF SameTransaction(vaults, e)
                         THEN [worker EXCEPT
                                 ![k].pc = "find",
                                 ![k].i = worker[k].i + 1,
                                 ![k].now = IssuedAt(worker[k].events,
                                                     worker[k].i + 1)]
                         ELSE [worker EXCEPT ![k].pc = "upsert",
                                             ![k].now = clock]
        /\ UNCHANGED <<frameWorkerStep, storeVars, histVars>>

\* updateFromEvent lines 128-132 and processEvents lines 278-280:
\* findOneAndUpdate wrote the vault as it is now, the call returned true and
\* the event is added to eventsUpdated.
PassUpdate ==
    \E k \in HandlerIds :
        /\ wstate = "running" /\ worker[k].pc = "upsert"
        /\ LET e == worker[k].events[worker[k].i]
           IN  /\ vaults' = UpsertVault(vaults, e.addr,
                               UpdateData(FindVault(vaults, e.addr), e,
                                          worker[k].now))
               /\ worker' = [worker EXCEPT
                     ![k].pc = "find", ![k].i = worker[k].i + 1,
                     ![k].updated = Append(worker[k].updated, e),
                     ![k].now = IssuedAt(worker[k].events, worker[k].i + 1)]
        /\ UNCHANGED <<frameWorkerStep, tracker, ledger, proofs, histVars>>

\* processEvents lines 288-297: the tracker update called after the last
\* event is applied, with the height and the time it was called with, and
\* the updated events are returned.
PassAdvance ==
    \E k \in HandlerIds :
        /\ wstate = "running" /\ worker[k].pc = "find"
        /\ worker[k].i > Len(worker[k].events)
        /\ tracker' = AdvanceTracker(tracker, worker[k].target, worker[k].now)
        /\ worker' = [worker EXCEPT ![k].pc = "done", ![k].now = 0]
        /\ firstStart' = [firstStart EXCEPT !.phase =
                             IF passRaised THEN "failed"
                             ELSE IF firstStart.phase = "retry"
                             THEN "retried" ELSE "ok"]
        /\ prevFrom' = IF passRaised THEN prevFrom ELSE NoBlock
        /\ UNCHANGED <<frameWorkerStep, ledger, vaults, proofs, passStart,
                       passRaised>>

\* An awaited operation of the pass raised (fetchEvents, findOne,
\* storeFromEvent, the findOne or the findOneAndUpdate of updateFromEvent,
\* or the tracker update); the store is left as it was before the
\* operation.
PassRaises ==
    \E k \in HandlerIds :
        /\ wstate = "running" /\ worker[k].pc \in PassPcs
        /\ \E raw \in RawTexts(RawStoreError) :
              worker' = [worker EXCEPT ![k] = RethrowInPass(worker[k], raw)]
        /\ passRaised' = TRUE
        /\ firstStart' = [firstStart EXCEPT !.phase = "failed"]
        /\ prevFrom' = FailedFrom(worker[k])
        /\ UNCHANGED <<frameWorkerStep, storeVars, passStart>>

PassStep ==
    \/ PassBegin \/ PassBeginFails \/ PassFetch \/ PassSkip \/ PassFind
    \/ PassStore \/ PassGuard \/ PassUpdate \/ PassAdvance \/ PassRaises

(***************************************************************************)
(* The worker process around its handlers (block-worker.ts).               *)
(***************************************************************************)
ProcessBlock(h) == [type |-> "processBlock", blockHeight |-> h]
ShutdownMsg == [type |-> "shutdown", blockHeight |-> NoBlock]
Reply(ty) == [type |-> ty]
\* { type: 'error', error: <the error's message> }
ErrorReply(msg) == [type |-> "error", error |-> msg]
ReplyMsg(ty, msg) == IF ty = "error" THEN ErrorReply(msg) ELSE Reply(ty)

frameWorkerProc == <<mainVars, ledger, vaults, proofs, chain, restarts,
                     blockCheckInterval, histVars, harnessVars>>

\* initializeWorker (lines 49-65) awaits four steps in this order: the
\* chain bindings, the database connection, eventProcessor.init() and
\* proof.init(). No listener is installed yet, so nothing else runs in the
\* worker: the position of initializeWorker is kept in worker[1].
InitPcs == {"bindings", "database", "checkpoint", "compile"}
NextInitPc(pc) ==
    CASE pc = "bindings" -> "database"
      [] pc = "database" -> "checkpoint"
      [] pc = "checkpoint" -> "compile"
      [] OTHER -> pc
StartingHandler == [IdleHandlers EXCEPT ![1].pc = "bindings"]
StartupPc == worker[1].pc

\* One of the first three steps returned; eventProcessor.init() has
\* created the tracker if there was none.
WorkerInitStep ==
    /\ wstate = "starting"
    /\ StartupPc \in InitPcs \ {"compile"}
    /\ worker' = [worker EXCEPT ![1].pc = NextInitPc(StartupPc)]
    /\ tracker' = IF StartupPc = "checkpoint"
                  THEN getOrCreate(tracker, DefaultStartBlock, clock)
                  ELSE tracker
    /\ UNCHANGED <<frameWorkerProc, ipcVars, wstate, wsig, clock>>

\* Line 133 runs in the then() of initializeWorker's promise: only once the
\* last awaited step, proof.init(), has returned.
StartupUnchecked(pc) == pc \in InitPcs
StartupFinished(pc) == pc = "compile"

\* The main process has exited and the worker's IPC channel is closed
\* with it. process.send() of the worker (block-worker.ts lines 133, 141,
\* 143-146) then emits 'error' on process, for which the worker has no
\* listener and no uncaughtException handler: the worker process ends with
\* exit code 1, its handlers with it.
MainGone == proc = "exited"

\* proof.init() returned and initializeWorker with it (lines 62-65), then
\* line 133: 'initialized' is sent and the message and signal handlers are
\* installed. With the main process gone the send ends the worker.
WorkerInitOk ==
    /\ wstate = "starting"
    /\ StartupFinished(StartupPc)
    /\ wstate' = IF MainGone THEN "exited" ELSE "running"
    /\ exitEvent' = IF MainGone THEN 1 ELSE exitEvent
    /\ worker' = IdleHandlers
    /\ toMain' = Append(toMain, Reply("initialized"))
    /\ UNCHANGED <<frameWorkerProc, tracker, toWorker, wsig, clock>>

\* initializeWorker lines 67-70: a step of the initialization raised; the
\* worker sends error and exits with code 1.
WorkerInitFail ==
    /\ wstate = "starting"
    /\ wstate' = "exited"
    /\ worker' = IdleHandlers
    /\ exitEvent' = 1
    /\ toMain' = Append(toMain, ErrorReply(RawStartupError))
    /\ UNCHANGED <<frameWorkerProc, tracker, toWorker, wsig, clock>>

\* The worker process ends during its startup without reporting anything
\* (it is killed, or something in it calls exit): any exit code.
WorkerEndsEarly ==
    /\ wstate = "starting"
    /\ wstate' = "exited"
    /\ worker' = IdleHandlers
    /\ \E code \in {0, 1} : exitEvent' = code
    /\ UNCHANGED <<frameWorkerProc, tracker, toWorker, toMain, wsig, clock>>

\* The handler slot a new request takes: the lowest one not in use. At most
\* MaxCycles requests are sent over a run, so one is free.
FreeSlot ==
    CHOOSE k \in HandlerIds :
        /\ worker[k].pc = "idle"
        /\ \A j \in HandlerIds : worker[j].pc = "idle" => k <= j

\* process.on('message') lines 136-139: a processBlock message starts
\* handleBlock. The listener has no guard: it starts the handler whatever
\* the other handlers are doing, and also while shutdown() is closing the
\* connection.
WorkerTakeBlock ==
    /\ wstate = "running"
    /\ \E k \in HandlerIds : worker[k].pc = "idle"
    /\ toWorker # <<>> /\ Head(toWorker).type = "processBlock"
    /\ worker' = [worker EXCEPT ![FreeSlot] =
                     [IdleHandler EXCEPT !.pc = "collect",
                                         !.target = Head(toWorker).blockHeight]]
    /\ toWorker' = Tail(toWorker)
    /\ UNCHANGED <<frameWorkerProc, tracker, toMain, exitEvent, wstate, wsig,
                   clock>>

\* process.on('message') lines 140-146: handleBlock returned and success
\* is sent, or it raised and error is sent with the error's message; the
\* handler's local values end with it.
ReplyAlwaysSuccess(pc) == "success"
ReplyType(pc) == IF pc = "done" THEN "success" ELSE "error"

\* A handler that ends without sending anything.
WorkerEndsSilently ==
    \E k \in HandlerIds :
        /\ wstate = "running"
        /\ worker[k].pc \in {"done", "failed"}
        /\ worker' = [worker EXCEPT ![k] = IdleHandler]
        /\ UNCHANGED <<frameWorkerProc, tracker, toWorker, toMain, exitEvent,
                       wstate, wsig, clock>>

WorkerReply ==
    \E k \in HandlerIds :
        /\ wstate = "running"
        /\ worker[k].pc \in {"done", "failed"}
        /\ toMain' = Append(toMain, ReplyMsg(ReplyType(worker[k].pc),
                                             worker[k].err))
        /\ IF MainGone
           THEN /\ wstate' = "exited"
                /\ exitEvent' = 1
                /\ worker' = IdleHandlers
                /\ wsig' = FALSE
                /\ toWorker' = <<>>
           ELSE /\ worker' = [worker EXCEPT ![k] = IdleHandler]
                /\ UNCHANGED <<toWorker, exitEvent, wstate, wsig>>
        /\ UNCHANGED <<frameWorkerProc, tracker, clock>>

\* process.on('message') lines 148-149: a shutdown message calls
\* shutdown(), which awaits mongoose.connection.close() (line 77). Until
\* the close has returned the listener and the handlers go on running.
WorkerTakeShutdown ==
    /\ wstate = "running"
    /\ toWorker # <<>> /\ Head(toWorker).type = "shutdown"
    /\ toWorker' = Tail(toWorker)
    /\ wsig' = TRUE
    /\ UNCHANGED <<frameWorkerProc, tracker, toMain, exitEvent, wstate,
                   worker, clock>>

\* shutdown() lines 77-84, called for SIGTERM (line 154) or for a shutdown
\* message: the close returned and the worker exits with code 0, or it
\* raised and the worker exits with code 1, whatever its handlers were
\* doing; they end with the process and the messages it has not read are
\* lost.
WorkerShutdown ==
    /\ wstate = "running"
    /\ wsig
    /\ wstate' = "exited"
    /\ wsig' = FALSE
    /\ worker' = IdleHandlers
    /\ \E code \in {0, 1} : exitEvent' = code
    /\ toWorker' = <<>>
    /\ UNCHANGED <<frameWorkerProc, tracker, toMain, clock>>

\* The worker process dies while it handles a request, at any point from
\* the message that started the handler to its reply (an uncaught
\* exception, the out-of-memory killer): a nonzero exit code. What the
\* handler has written stays written.
WorkerCrash ==
    /\ wstate = "running"
    /\ \E k \in HandlerIds : worker[k].pc # "idle"
    /\ wstate' = "exited"
    /\ wsig' = FALSE
    /\ worker' = IdleHandlers
    /\ exitEvent' = 1
    /\ toWorker' = <<>>
    /\ UNCHANGED <<frameWorkerProc, tracker, toMain, clock>>

WorkerStep ==
    \/ WorkerInitStep \/ WorkerInitOk \/ WorkerInitFail \/ WorkerEndsEarly
    \/ WorkerTakeBlock \/ WorkerReply
    \/ WorkerTakeShutdown \/ WorkerShutdown \/ WorkerCrash
    \/ WorkerCollect \/ WorkerCompute \/ WorkerSaveProof
    \/ WorkerStepFails
    \/ PassStep

(***************************************************************************)
(* The orchestrator (orchestrator.ts, class Orchestrator at lines 19-190)  *)
(* inside the main process (part_007, the entry point).                    *)
(***************************************************************************)
DefaultCheckIntervalSec == 10  \* config.blockCheckInterval when unset
GraceDelayMs == 3000           \* the exit timer of checkNewBlock
FatalExitCode == 1             \* process.exit(1) in that timer

\* config.blockCheckInterval is process.env.BLOCKCHECK_INTERVAL, in
\* seconds, or the default: the default, and a value below the grace delay.
CheckIntervals == {1, DefaultCheckIntervalSec}
IntervalDefault == blockCheckInterval = DefaultCheckIntervalSec

Alive == proc \in {"starting", "running"}

\* shutdown() is being called again and again from the uncaughtException
\* handler (part_007 lines 97-100): every run of the tick queue throws the
\* 'error' of the refused send and Node does not get to the microtask
\* queue. Timers and events are served; no await of the main process
\* continues.
Starved == shutPc \in {"uncaught", "refused"}
Awaiting == {t \in TimerIds : ticks[t].pc = "await"}
Connected == wstate \in {"starting", "running"}

\* checkNewBlock line 96: the check is skipped while a block is processed.
NeverProcessing(processing) == FALSE
StillProcessing(processing) == processing

\* checkNewBlock lines 120-123: the error that ended the check is fatal
\* when its message includes 'Block processing timeout', whatever raised
\* it: the timer of handleNewBlock, the worker's error reply, which
\* carries the message of the worker's error, or the head query.
IsFatal(msg) == Includes(msg, TimeoutText)

\* new Error(`Worker exited with code ${code}`) of handleNewBlock line 161
\* and the error child.send() emits on a closed channel.
WorkerExitedText(code) ==
    <<"Worker", "exited", "with", "code", ToString(code)>>
ChannelClosed == <<"Channel", "closed">>

\* checkNewBlock lines 115-116: the watermark after handleNewBlock ended
\* with outcome for the head it was called with.
WatermarkAlways(outcome, watermark, head) == head
WatermarkAfter(outcome, watermark, head) ==
    IF outcome = "success" THEN head ELSE watermark

\* scheduleNextCheck line 87: the timer runs for blockCheckInterval * 1000
\* ms. Set while the exit timer is pending, it expires after that timer
\* when the interval is not shorter than the grace delay ("late"); a
\* shorter one can expire first.
ArmedPc(grace) ==
    IF grace /\ blockCheckInterval * 1000 >= GraceDelayMs
    THEN "late" ELSE "armed"

\* scheduleNextCheck (lines 72-88) called for the check that timer t drove:
\* nothing when not watching, else a new timer, kept in watchTimeout.
ScheduledTicks(tk, t, watching, grace) ==
    [tk EXCEPT ![t] = IF watching
                      THEN [pc |-> ArmedPc(grace), head |-> 0]
                      ELSE FreeTick]
ScheduledTimeout(wt, t, watching) == IF watching THEN t ELSE wt

\* A stop() that also drops the checks in flight.
StoppedTicksAll(tk, wt) == [t \in TimerIds |-> FreeTick]

\* stop() (lines 60-67): the timer in watchTimeout is cleared if it has
\* not fired yet.
StoppedTicks(tk, wt) ==
    IF wt # 0 /\ tk[wt].pc \in {"armed", "late"}
    THEN [tk EXCEPT ![wt] = FreeTick] ELSE tk

\* The end of checkNewBlock for the check of timer t, with its outcome and
\* the message of the error it caught (NoError when it caught none): the
\* catch block (lines 118-131), which on a fatal message kills the worker
\* and sets the exit timer, the finally block (line 132), then the finally
\* block of the timer callback (line 84).
EndCheck(t, outcome, msg) ==
    /\ lastOutcome' = outcome
    /\ currentBlockHeight' =
           WatermarkAfter(outcome, currentBlockHeight, ticks[t].head)
    /\ graceArmed' = (graceArmed \/ IsFatal(msg))
    /\ wsig' = (wsig \/ (IsFatal(msg) /\ wstate = "running"))
    /\ isProcessing' = FALSE
    /\ ticks' = ScheduledTicks(ticks, t, isWatching, graceArmed')
    /\ watchTimeout' = ScheduledTimeout(watchTimeout, t, isWatching)

frameMainStep == <<storeVars, chain, restarts, blockCheckInterval,
                   histVars, harnessVars>>

\* process.exit(code): the process is gone and its timers and flags with
\* it; what it logged last and the exit code remain.
ProcessExit(code) ==
    /\ proc' = "exited"
    /\ exitCode' = code
    /\ blockWorker' = FALSE
    /\ isWatching' = FALSE
    /\ isProcessing' = FALSE
    /\ watchTimeout' = 0
    /\ ticks' = [t \in TimerIds |-> FreeTick]
    /\ graceArmed' = FALSE
    /\ shutPc' = "none"
    /\ errListeners' = FALSE
    /\ UNCHANGED <<currentBlockHeight, lastOutcome>>

\* initServices lines 79-83: the worker's 'initialized' message arrived;
\* setBlockWorker, then start() (lines 44-55) schedules the first check.
MainInitialized ==
    /\ proc = "starting"
    /\ toMain # <<>> /\ Head(toMain).type = "initialized"
    /\ toMain' = Tail(toMain)
    /\ proc' = "running"
    /\ blockWorker' = TRUE
    /\ isWatching' = TRUE
    /\ ticks' = ScheduledTicks(ticks, 1, TRUE, graceArmed)
    /\ watchTimeout' = ScheduledTimeout(watchTimeout, 1, TRUE)
    /\ UNCHANGED <<exitCode, currentBlockHeight, isProcessing, graceArmed,
                   shutPc, errListeners, lastOutcome, toWorker, exitEvent,
                   workerVars, clock, frameMainStep>>

\* An initServices that starts the orchestrator although initBlockWorker
\* rejected.
MainStartsAnyway ==
    /\ proc = "starting"
    /\ \/ toMain # <<>> /\ Head(toMain).type = "error"
       \/ exitEvent # NoCode /\ exitEvent # 0
    /\ proc' = "running"
    /\ blockWorker' = TRUE
    /\ isWatching' = TRUE
    /\ ticks' = ScheduledTicks(ticks, 1, TRUE, graceArmed)
    /\ watchTimeout' = ScheduledTimeout(watchTimeout, 1, TRUE)
    /\ UNCHANGED <<exitCode, currentBlockHeight, isProcessing, graceArmed,
                   shutPc, errListeners, lastOutcome, ipcVars, workerVars,
                   clock, frameMainStep>>

\* initBlockWorker lines 30-38 rejected (the worker sent error, or exited
\* with a code other than 0); initServices line 88 calls shutdown(), which
\* finds no block worker and exits with code 0 (part_007 lines 49-59).
MainInitFailed ==
    /\ proc = "starting"
    /\ \/ toMain # <<>> /\ Head(toMain).type = "error"
       \/ exitEvent # NoCode /\ exitEvent # 0
    /\ ProcessExit(0)
    /\ UNCHANGED <<ipcVars, workerVars, clock, frameMainStep>>

\* initBlockWorker lines 36-39: the worker's 'exit' event arrives with code
\* 0 before any message; the listener does nothing and the promise stays
\* pending, with nothing left that could settle it (MainRunsOut).
MainIgnoresExit ==
    /\ proc = "starting"
    /\ exitEvent = 0
    /\ exitEvent' = NoCode
    /\ UNCHANGED <<mainVars, toWorker, toMain, workerVars, clock,
                   frameMainStep>>

\* Nothing is left that could call into the main process again: the worker
\* has exited, its 'exit' event was delivered and no message of it is
\* unread; no check timer is set and no check is in flight; no exit timer
\* is pending; no refused send is being handled. Node ends such a process
\* by itself, with exit code 0 (the signal handlers of part_007 lines 93-94
\* do not keep it), once the 60000 ms timers of the requests that have
\* ended (handleNewBlock line 171, never cleared) have run out.
MainRunsOut ==
    /\ Alive
    /\ wstate = "exited" /\ exitEvent = NoCode /\ toMain = <<>>
    /\ \A t \in TimerIds : ticks[t].pc = "free"
    /\ ~graceArmed
    /\ shutPc \in {"none", "waitExit"}
    /\ ProcessExit(0)
    /\ UNCHANGED <<ipcVars, workerVars, clock, frameMainStep>>

\* The exported orchestrator's stop() (lines 60-67) called while the
\* process runs. On a stopped orchestrator watchTimeout is null and
\* isWatching false already: the call changes nothing (no step).
ApiStop ==
    /\ proc = "running"
    /\ isWatching
    /\ isWatching' = FALSE
    /\ ticks' = StoppedTicks(ticks, watchTimeout)
    /\ watchTimeout' = 0
    /\ UNCHANGED <<proc, exitCode, blockWorker, currentBlockHeight,
                   isProcessing, graceArmed, shutPc, errListeners,
                   lastOutcome, ipcVars, workerVars, clock, frameMainStep>>

\* The exported orchestrator's start() (lines 44-55) called again. While
\* watching it returns at once (no step); else it schedules a check.
ApiStart ==
    /\ proc = "running"
    /\ ~isWatching
    /\ \E t \in TimerIds :
        /\ ticks[t].pc = "free"
        /\ \A u \in TimerIds : ticks[u].pc = "free" => t <= u
        /\ ticks' = ScheduledTicks(ticks, t, TRUE, graceArmed)
        /\ watchTimeout' = ScheduledTimeout(watchTimeout, t, TRUE)
    /\ isWatching' = TRUE
    /\ UNCHANGED <<proc, exitCode, blockWorker, currentBlockHeight,
                   isProcessing, graceArmed, shutPc, errListeners,
                   lastOutcome, ipcVars, workerVars, clock, frameMainStep>>

\* The timer callback of scheduleNextCheck (lines 75-86) runs and enters
\* checkNewBlock: lines 96-99 skip the check while one is in progress and
\* the callback schedules the next one; else line 102 sets isProcessing and
\* fetchLastBlock is awaited.
TimerFire(t) ==
    /\ proc = "running"
    /\ ticks[t].pc = "armed"
    /\ IF StillProcessing(isProcessing)
       THEN /\ lastOutcome' = "skipped"
            /\ ticks' = ScheduledTicks(ticks, t, isWatching, graceArmed)
            /\ watchTimeout' = ScheduledTimeout(watchTimeout, t, isWatching)
            /\ UNCHANGED isProcessing
       ELSE /\ isProcessing' = TRUE
            /\ lastOutcome' = "none"
            /\ ticks' = [ticks EXCEPT ![t] = [pc |-> "fetch", head |-> 0]]
            /\ UNCHANGED watchTimeout
    /\ UNCHANGED <<proc, exitCode, blockWorker, currentBlockHeight,
                   isWatching, graceArmed, shutPc, errListeners, ipcVars,
                   workerVars, clock, frameMainStep>>

\* The IPC channel to the worker: node closes it ('disconnect') when the
\* worker process ends, before it delivers 'exit' to the main process.
ChannelOpen == Connected

\* checkNewBlock lines 103-106: fetchLastBlock returned head h. Not above
\* the watermark: the check ends. Above it: handleNewBlock (lines 143-176)
\* sets its listeners, once('error') among them, and sends processBlock.
\* On a closed channel send() emits 'error' on the next tick: the
\* once('error') listeners all run and are removed, and the request is
\* rejected at once with the channel's error. Each request advances the
\* clock; MaxCycles requests are made over a run.
FetchOk(t, h) ==
    /\ proc = "running"
    /\ ~Starved
    /\ ticks[t].pc = "fetch"
    /\ IF h > currentBlockHeight
       THEN /\ clock < MaxCycles
            /\ clock' = clock + 1
            /\ IF ChannelOpen
               THEN /\ ticks' = [ticks EXCEPT
                                    ![t] = [pc |-> "await", head |-> h]]
                    /\ toWorker' = Append(toWorker, ProcessBlock(h))
                    /\ errListeners' = TRUE
                    /\ UNCHANGED <<currentBlockHeight, isProcessing,
                                   graceArmed, lastOutcome, watchTimeout,
                                   wsig>>
               ELSE /\ EndCheck(t, "sendfail", ChannelClosed)
                    /\ errListeners' = FALSE
                    /\ UNCHANGED toWorker
       ELSE /\ EndCheck(t, "nonew", NoError)
            /\ UNCHANGED <<toWorker, clock, errListeners>>
    /\ UNCHANGED <<proc, exitCode, blockWorker, isWatching, shutPc, toMain,
                   exitEvent, wstate, worker, frameMainStep>>

\* A failed head query whose check ends without clearing isProcessing.
FetchFailKeepsFlag(t) ==
    /\ proc = "running"
    /\ ~Starved
    /\ ticks[t].pc = "fetch"
    /\ lastOutcome' = "headfail"
    /\ ticks' = ScheduledTicks(ticks, t, isWatching, graceArmed)
    /\ watchTimeout' = ScheduledTimeout(watchTimeout, t, isWatching)
    /\ UNCHANGED <<proc, exitCode, blockWorker, currentBlockHeight,
                   isWatching, isProcessing, graceArmed, shutPc, errListeners,
                   ipcVars, workerVars, clock, frameMainStep>>

\* checkNewBlock line 103: fetchLastBlock raised, with the message of the
\* error the network interface gave it.
FetchFail(t) ==
    /\ proc = "running"
    /\ ~Starved
    /\ ticks[t].pc = "fetch"
    /\ \E msg \in RawTexts(RawHeadError) : EndCheck(t, "headfail", msg)
    /\ UNCHANGED <<proc, exitCode, blockWorker, isWatching, shutPc,
                   errListeners, ipcVars, wstate, worker, clock,
                   frameMainStep>>

\* handleNewBlock lines 151-157: the worker's next message settles the
\* outstanding request: success resolves it, error rejects it with the
\* message the reply carries. No request outstanding: no listener is left
\* and the message is dropped. In the starved process the listener runs
\* and the check that awaits the request does not continue.
RecvMessage ==
    /\ proc = "running"
    /\ toMain # <<>>
    /\ toMain' = Tail(toMain)
    /\ IF Awaiting = {} \/ Starved
       THEN UNCHANGED <<currentBlockHeight, isProcessing, graceArmed,
                        lastOutcome, ticks, watchTimeout, wsig>>
       ELSE \E t \in Awaiting :
               EndCheck(t, Head(toMain).type,
                        IF Head(toMain).type = "error"
                        THEN Head(toMain).error ELSE NoError)
    /\ UNCHANGED <<proc, exitCode, blockWorker, isWatching, shutPc,
                   errListeners, toWorker, exitEvent, wstate, worker, clock,
                   frameMainStep>>

\* handleNewBlock lines 171-174: the 60000 ms timer of the outstanding
\* request fires first. In the starved process the timer's rejection is
\* not taken up by the check.
Timeout(t) ==
    /\ proc = "running"
    /\ ~Starved
    /\ t \in Awaiting
    /\ EndCheck(t, "timeout", TimeoutText)
    /\ UNCHANGED <<proc, exitCode, blockWorker, isWatching, shutPc,
                   errListeners, ipcVars, wstate, worker, clock,
                   frameMainStep>>

\* The worker's 'exit' event reaches the main process. A shutdown() that
\* waits for it (part_007 lines 54-59), one call or several, exits with
\* code 0. Otherwise the listener of handleNewBlock (lines 160-162)
\* rejects the outstanding request when the code is not 0, and does
\* nothing when it is 0. In the starved process the listeners run, and
\* neither shutdown() nor the check continues.
RecvExit ==
    /\ proc = "running"
    /\ exitEvent # NoCode
    /\ exitEvent' = NoCode
    /\ IF shutPc = "waitExit"
       THEN /\ ProcessExit(0)
            /\ UNCHANGED wsig
       ELSE /\ UNCHANGED <<proc, exitCode, blockWorker, isWatching, shutPc,
                           errListeners>>
            /\ IF Awaiting # {} /\ exitEvent # 0 /\ ~Starved
               THEN \E t \in Awaiting :
                       EndCheck(t, "exit", WorkerExitedText(exitEvent))
               ELSE UNCHANGED <<currentBlockHeight, isProcessing, graceArmed,
                                lastOutcome, ticks, watchTimeout, wsig>>
    /\ UNCHANGED <<toWorker, toMain, wstate, worker, clock, frameMainStep>>

\* checkNewBlock lines 126-129: the exit timer fires.
GraceExit ==
    /\ Alive
    /\ graceArmed
    /\ ProcessExit(FatalExitCode)
    /\ UNCHANGED <<ipcVars, workerVars, clock, frameMainStep>>

\* The shutdown messages the worker has not read yet.
QueuedShutdowns == Len(SelectSeq(toWorker, LAMBDA m : m.type = "shutdown"))

\* child.send() on a closed channel returns false and emits 'error' on
\* the next tick. The once('error') listeners on the worker, the one of
\* initBlockWorker (part_007 line 35) and the one of every handleNewBlock
\* since (orchestrator.ts line 159), all run and are removed: the
\* outstanding request, if there is one, is rejected with the channel's
\* error, and its check ends on the stopped orchestrator, which schedules
\* nothing; shutdown() goes on waiting for the worker's exit. With no
\* listener left the error is an uncaught exception. stopped is the timers
\* as stop() left them.
ErrorEmitted(stopped) ==
    /\ errListeners' = FALSE
    /\ IF errListeners
       THEN /\ shutPc' = "waitExit"
            /\ ticks' = [t \in TimerIds |->
                            IF stopped[t].pc = "await" THEN FreeTick
                            ELSE stopped[t]]
            /\ isProcessing' = (isProcessing /\ Awaiting = {})
            /\ lastOutcome' = IF Awaiting = {} THEN lastOutcome
                              ELSE "sendfail"
       ELSE /\ shutPc' = "uncaught"
            /\ ticks' = stopped
            /\ UNCHANGED <<isProcessing, lastOutcome>>

\* SIGTERM or SIGINT reaches the main process (part_007 lines 93-94), at
\* any time and any number of times: each one runs shutdown() (lines
\* 46-64), which stops the orchestrator; with no block worker it exits with
\* code 0, else it sends shutdown and waits for the worker's exit, beside
\* the calls that wait already. The block worker stays set when the worker
\* process has ended: the send is then refused. At most MaxShutdowns
\* shutdown messages are in the worker's queue at a time.
SignalShutdown ==
    /\ Alive
    /\ (blockWorker /\ ChannelOpen) => QueuedShutdowns < MaxShutdowns
    /\ IF ~blockWorker
       THEN /\ ProcessExit(0)
            /\ UNCHANGED toWorker
       ELSE /\ isWatching' = FALSE
            /\ watchTimeout' = 0
            /\ IF ChannelOpen
               THEN /\ toWorker' = Append(toWorker, ShutdownMsg)
                    /\ shutPc' = "waitExit"
                    /\ ticks' = StoppedTicks(ticks, watchTimeout)
                    /\ UNCHANGED <<isProcessing, lastOutcome, errListeners>>
               ELSE /\ ErrorEmitted(StoppedTicks(ticks, watchTimeout))
                    /\ UNCHANGED toWorker
            /\ UNCHANGED <<proc, exitCode, blockWorker, currentBlockHeight,
                           graceArmed>>
    /\ UNCHANGED <<toMain, exitEvent, workerVars, clock, frameMainStep>>

\* The uncaughtException handler (part_007 lines 97-100) runs for the
\* 'error' no listener took and calls shutdown() again: stop(), then the
\* send to the worker that has ended, which is refused again; its 'error'
\* is emitted when Node next runs the tick queue, after the handler has
\* returned and the pending events have been served.
UncaughtShutdown ==
    /\ Alive
    /\ shutPc = "uncaught"
    /\ isWatching' = FALSE
    /\ ticks' = StoppedTicks(ticks, watchTimeout)
    /\ watchTimeout' = 0
    /\ shutPc' = "refused"
    /\ UNCHANGED <<proc, exitCode, blockWorker, currentBlockHeight,
                   isProcessing, graceArmed, errListeners, lastOutcome,
                   ipcVars, workerVars, clock, frameMainStep>>

\* The 'error' of the send that shutdown() made from the uncaughtException
\* handler is emitted.
EmitError ==
    /\ Alive
    /\ shutPc = "refused"
    /\ ErrorEmitted(ticks)
    /\ UNCHANGED <<proc, exitCode, blockWorker, currentBlockHeight,
                   isWatching, watchTimeout, graceArmed, ipcVars,
                   workerVars, clock, frameMainStep>>

(***************************************************************************)
(* Spec: the main process, the worker and the store, with a supervisor     *)
(* that restarts the pair after an exit, and with BLOCKCHECK_INTERVAL      *)
(* unset. The contract has emitted one event, in block 2: the fetch of a   *)
(* request for block 1 returns it when block 2 is mined by then.           *)
(***************************************************************************)
SpecChain == <<MkEvent("NewVault", "h2", "included", "A", 2)>>

\* part_007 line 108: initServices() has forked the worker and waits for
\* its first message; nothing is stored yet.
InitProcesses ==
    /\ proc = "starting" /\ exitCode = NoCode /\ blockWorker = FALSE
    /\ currentBlockHeight = 0 /\ isWatching = FALSE /\ isProcessing = FALSE
    /\ watchTimeout = 0 /\ ticks = [t \in TimerIds |-> FreeTick]
    /\ graceArmed = FALSE /\ shutPc = "none" /\ lastOutcome = "none"
    /\ errListeners = TRUE
    /\ IpcEmpty
    /\ wstate = "starting" /\ wsig = FALSE /\ worker = StartingHandler
    /\ StoreEmpty /\ HistEmpty /\ HarnessOff
    /\ clock = 0 /\ restarts = 0

Init == InitProcesses /\ IntervalDefault /\ chain = SpecChain

\* The supervisor starts the service again once both processes are gone:
\* every in-memory field is back at its initial value, the collections
\* keep their documents.
Restart ==
    /\ proc = "exited" /\ wstate = "exited"
    /\ restarts < MaxRestarts
    /\ restarts' = restarts + 1
    /\ proc' = "starting" /\ exitCode' = NoCode /\ blockWorker' = FALSE
    /\ currentBlockHeight' = 0 /\ isWatching' = FALSE
    /\ isProcessing' = FALSE /\ watchTimeout' = 0
    /\ ticks' = [t \in TimerIds |-> FreeTick]
    /\ graceArmed' = FALSE /\ shutPc' = "none" /\ lastOutcome' = "none"
    /\ errListeners' = TRUE
    /\ toWorker' = <<>> /\ toMain' = <<>> /\ exitEvent' = NoCode
    /\ wstate' = "starting" /\ wsig' = FALSE /\ worker' = StartingHandler
    /\ UNCHANGED <<storeVars, chain, clock, blockCheckInterval, histVars,
                   harnessVars>>

MainStep ==
    \/ MainInitialized \/ MainInitFailed \/ MainIgnoresExit \/ MainRunsOut
    \/ \E t \in TimerIds : TimerFire(t)
    \/ \E t \in TimerIds, h \in 0..MaxHead : FetchOk(t, h)
    \/ \E t \in TimerIds : FetchFail(t)
    \/ RecvMessage
    \/ \E t \in TimerIds : Timeout(t)
    \/ RecvExit \/ GraceExit

\* shutdown() of the entry point, called for a signal or for the 'error'
\* of a refused send that no listener took.
ShutdownStep == EmitError \/ UncaughtShutdown \/ SignalShutdown

Next == MainStep \/ ShutdownStep \/ WorkerStep \/ Restart
Spec == Init /\ [][Next]_vars

(***************************************************************************)
(* SpecWatch: the same two processes with callers of the exported          *)
(* orchestrator's stop() and start() while it runs, without signals and    *)
(* without a restart, on a chain whose contract has emitted no event.      *)
(***************************************************************************)
InitWatch == InitProcesses /\ IntervalDefault /\ chain = <<>>

WatchWorkerStep ==
    \/ WorkerInitStep \/ WorkerInitOk \/ WorkerInitFail \/ WorkerEndsEarly
    \/ WorkerTakeBlock \/ WorkerReply
    \/ WorkerShutdown \/ WorkerCrash
    \/ WorkerCollect \/ WorkerCompute \/ WorkerSaveProof
    \/ WorkerStepFails
    \/ PassBegin \/ PassBeginFails \/ PassFetch \/ PassAdvance \/ PassRaises

NextWatch == MainStep \/ WatchWorkerStep \/ ApiStop \/ ApiStart
SpecWatch == InitWatch /\ [][NextWatch]_vars

(***************************************************************************)
(* SpecTicks: the two processes of one run on the same chain, with the     *)
(* termination signal and without a restart, under the scheduling of the   *)
(* Node.js event loop: a timer that is set and not cleared fires           *)
(* (setTimeout in scheduleNextCheck line 75, handleNewBlock line 171 and   *)
(* checkNewBlock line 126), and fetchLastBlock returns or raises.          *)
(***************************************************************************)
NextTicks ==
    MainStep \/ ShutdownStep \/ WatchWorkerStep \/ WorkerTakeShutdown

FairTicks ==
    /\ WF_vars(\E t \in TimerIds : TimerFire(t))
    /\ WF_vars(\E t \in TimerIds :
                  FetchFail(t) \/ \E h \in 0..MaxHead : FetchOk(t, h))
    /\ WF_vars(\E t \in TimerIds : Timeout(t))
    /\ WF_vars(GraceExit)

SpecTicks == InitWatch /\ [][NextTicks]_vars /\ FairTicks

(***************************************************************************)
(* SpecGrace: SpecTicks for every check interval of the environment. With  *)
(* an interval below the grace delay a check timer set while the exit      *)
(* timer is pending can expire first.                                      *)
(***************************************************************************)
InitGrace ==
    InitProcesses /\ blockCheckInterval \in CheckIntervals /\ chain = <<>>

SpecGrace == InitGrace /\ [][NextTicks]_vars /\ FairTicks

(***************************************************************************)
(* SpecRecon: processEvents alone, called MaxPasses times over a chain     *)
(* of up to MaxChain events, in block order.                               *)
(***************************************************************************)
\* A transaction sits in one block: h1 in block 1, h2 in block 2.
BlockOf(h) == IF h = "h1" THEN 1 ELSE 2

ReconEvents ==
    {MkEvent(ty, h, st, "A", BlockOf(h)) :
        ty \in {"NewVault", "DepositCollateral", "AdminUpdated"},
        h \in Hashes, st \in Statuses}

InBlockOrder(ch) ==
    \A i, j \in 1..Len(ch) : i <= j => ch[i].height <= ch[j].height

InitRecon ==
    /\ MainOff /\ IpcEmpty /\ HistEmpty /\ HarnessOff
    /\ wstate = "running" /\ wsig = FALSE /\ worker = IdleHandlers
    /\ tracker = getOrCreate({}, DefaultStartBlock, 0)
    /\ ledger = <<>> /\ vaults = {} /\ proofs = <<>>
    /\ chain \in {ch \in SeqsUpTo(ReconEvents, MaxChain) : InBlockOrder(ch)}
    /\ clock = 0 /\ restarts = 0 /\ IntervalDefault

\* handleBlock line 107: eventProcessor.processEvents(blockHeight).
ReconCall(h) ==
    /\ worker[1].pc = "idle"
    /\ clock < MaxPasses
    /\ clock' = clock + 1
    /\ worker' = [worker EXCEPT ![1] =
                     [IdleHandler EXCEPT !.pc = "tracker", !.target = h]]
    /\ UNCHANGED <<mainVars, ipcVars, wstate, wsig, storeVars, chain,
                   restarts, blockCheckInterval, histVars, harnessVars>>

\* processEvents has returned or raised.
ReconReturn ==
    /\ worker[1].pc \in {"done", "failed"}
    /\ worker' = [worker EXCEPT ![1].pc = "idle"]
    /\ UNCHANGED <<mainVars, ipcVars, wstate, wsig, storeVars, envVars,
                   histVars, harnessVars>>

NextRecon ==
    \/ \E h \in 1..MaxHead : ReconCall(h)
    \/ ReconReturn
    \/ PassStep
SpecRecon == InitRecon /\ [][NextRecon]_vars

(***************************************************************************)
(* SpecFrom: processEvents called MaxPasses times on a checkpoint document *)
(* as the collection may hold it when the worker starts (getOrCreate       *)
(* keeps a document that exists), over a chain of NewVault events.         *)
(***************************************************************************)
TrackerDocs ==
    {[lastProcessedBlock |-> l, startBlock |-> st, lastProcessedAt |-> 0] :
        l \in 0..MaxHead, st \in 0..MaxHead}

FromEvents ==
    {MkEvent("NewVault", h, "included", "A", BlockOf(h)) : h \in Hashes}

InitFrom ==
    /\ MainOff /\ IpcEmpty /\ HistEmpty /\ HarnessOff
    /\ wstate = "running" /\ wsig = FALSE /\ worker = IdleHandlers
    /\ tracker \in {getOrCreate({d}, DefaultStartBlock, 0) : d \in TrackerDocs}
    /\ ledger = <<>> /\ vaults = {} /\ proofs = <<>>
    /\ chain \in {ch \in SeqsUpTo(FromEvents, MaxChain) : InBlockOrder(ch)}
    /\ clock = 0 /\ restarts = 0 /\ IntervalDefault

SpecFrom == InitFrom /\ [][NextRecon]_vars

(***************************************************************************)
(* SpecList: processEvents called MaxPasses times over a chain of NewVault *)
(* events, pending or included, and of events of the four protocol types.  *)
(***************************************************************************)
ListEvents ==
    {MkEvent("NewVault", h, st, "A", BlockOf(h)) :
        h \in Hashes, st \in Statuses}
    \cup {MkEvent(ty, h, "included", "A", BlockOf(h)) :
            ty \in ProtocolEventTypes, h \in Hashes}

InitList ==
    /\ MainOff /\ IpcEmpty /\ HistEmpty /\ HarnessOff
    /\ wstate = "running" /\ wsig = FALSE /\ worker = IdleHandlers
    /\ tracker = getOrCreate({}, DefaultStartBlock, 0)
    /\ ledger = <<>> /\ vaults = {} /\ proofs = <<>>
    /\ chain \in {ch \in SeqsUpTo(ListEvents, MaxChain) : InBlockOrder(ch)}
    /\ clock = 0 /\ restarts = 0 /\ IntervalDefault

SpecList == InitList /\ [][NextRecon]_vars

(***************************************************************************)
(* SpecCycle: handleBlock alone, called MaxPasses times in the worker over *)
(* a chain of NewVault events: collection, proof computation, proof        *)
(* record, reconciliation pass.                                            *)
(***************************************************************************)
InitCycle ==
    /\ MainOff /\ IpcEmpty /\ HistEmpty /\ HarnessOff
    /\ wstate = "running" /\ wsig = FALSE /\ worker = IdleHandlers
    /\ tracker = getOrCreate({}, DefaultStartBlock, 0)
    /\ ledger = <<>> /\ vaults = {} /\ proofs = <<>>
    /\ chain \in {ch \in SeqsUpTo(FromEvents, MaxChain) : InBlockOrder(ch)}
    /\ clock = 0 /\ restarts = 0 /\ IntervalDefault

\* block-worker.ts line 139: handleBlock(blockHeight).
CycleCall(h) ==
    /\ worker[1].pc = "idle"
    /\ clock < MaxPasses
    /\ clock' = clock + 1
    /\ worker' = [worker EXCEPT ![1] =
                     [IdleHandler EXCEPT !.pc = "collect", !.target = h]]
    /\ UNCHANGED <<mainVars, ipcVars, wstate, wsig, storeVars, chain,
                   restarts, blockCheckInterval, histVars, harnessVars>>

\* handleBlock has returned or raised.
CycleReturn ==
    /\ worker[1].pc \in {"done", "failed"}
    /\ worker' = [worker EXCEPT ![1].pc = "idle"]
    /\ UNCHANGED <<mainVars, ipcVars, wstate, wsig, storeVars, envVars,
                   histVars, harnessVars>>

NextCycle ==
    \/ \E h \in 1..MaxHead : CycleCall(h)
    \/ CycleReturn
    \/ WorkerCollect \/ WorkerCompute \/ WorkerSaveProof \/ WorkerStepFails
    \/ PassStep
SpecCycle == InitCycle /\ [][NextCycle]_vars

(***************************************************************************)
(* SpecOverlap: processEvents running for several requests at once, as the *)
(* message listener of the worker allows: a call starts whatever the       *)
(* earlier calls are doing. The chain has two events on vault A.           *)
(***************************************************************************)
OverlapChain ==
    <<MkEvent("NewVault", "h1", "included", "A", 1),
      MkEvent("DepositCollateral", "h2", "included", "A", 2)>>

InitOverlap ==
    /\ MainOff /\ IpcEmpty /\ HistEmpty /\ HarnessOff
    /\ wstate = "running" /\ wsig = FALSE /\ worker = IdleHandlers
    /\ tracker = getOrCreate({}, DefaultStartBlock, 0)
    /\ ledger = <<>> /\ vaults = {} /\ proofs = <<>>
    /\ chain = OverlapChain
    /\ clock = 0 /\ restarts = 0 /\ IntervalDefault

\* handleBlock line 107, in a handler of its own.
OverlapCall(h) ==
    /\ \E k \in HandlerIds : worker[k].pc = "idle"
    /\ clock < MaxPasses
    /\ clock' = clock + 1
    /\ worker' = [worker EXCEPT ![FreeSlot] =
                     [IdleHandler EXCEPT !.pc = "tracker", !.target = h]]
    /\ UNCHANGED <<mainVars, ipcVars, wstate, wsig, storeVars, chain,
                   restarts, blockCheckInterval, histVars, harnessVars>>

\* processEvents has returned or raised in one of the handlers.
OverlapReturn ==
    \E k \in HandlerIds :
        /\ worker[k].pc \in {"done", "failed"}
        /\ worker' = [worker EXCEPT ![k] = IdleHandler]
        /\ UNCHANGED <<mainVars, ipcVars, wstate, wsig, storeVars, envVars,
                       histVars, harnessVars>>

NextOverlap ==
    \/ \E h \in 1..MaxHead : OverlapCall(h)
    \/ OverlapReturn
    \/ PassStep
SpecOverlap == InitOverlap /\ [][NextOverlap]_vars

\* Two calls of updateFromEvent for one event have both passed the guard of
\* lines 70-76, both have written the vault and both have returned true.
OverlapBothApplied ==
    \E j, k \in HandlerIds :
        /\ j # k
        /\ worker[j].pc = "done" /\ worker[k].pc = "done"
        /\ \E e \in {chain[i] : i \in 1..Len(chain)} :
              /\ \E i \in 1..Len(worker[j].updated) : worker[j].updated[i] = e
              /\ \E i \in 1..Len(worker[k].updated) : worker[k].updated[i] = e

(***************************************************************************)
(* SpecReplay: processEvents called MaxPasses times while the network      *)
(* confirms transactions: two transactions of one block on vault A, both   *)
(* pending at first; fetchEvents reports each with its current status.     *)
(***************************************************************************)
ReplayChain ==
    <<MkEvent("NewVault", "h1", "pending", "A", 1),
      MkEvent("DepositCollateral", "h2", "pending", "A", 1)>>

InitReplay ==
    /\ MainOff /\ IpcEmpty /\ HistEmpty /\ HarnessOff
    /\ wstate = "running" /\ wsig = FALSE /\ worker = IdleHandlers
    /\ tracker = getOrCreate({}, DefaultStartBlock, 0)
    /\ ledger = <<>> /\ vaults = {} /\ proofs = <<>>
    /\ chain = ReplayChain
    /\ clock = 0 /\ restarts = 0 /\ IntervalDefault

\* The network includes the transaction of the i-th event in a block: the
\* event's chainStatus changes from pending to included.
ChainConfirm(i) ==
    /\ chain[i].status = "pending"
    /\ chain' = [chain EXCEPT ![i].status = "included"]
    /\ UNCHANGED <<mainVars, ipcVars, workerVars, storeVars, clock, restarts,
                   blockCheckInterval, histVars, harnessVars>>

NextReplay ==
    \/ \E h \in 1..MaxHead : ReconCall(h)
    \/ ReconReturn
    \/ PassStep
    \/ \E i \in 1..Len(ReplayChain) : ChainConfirm(i)
SpecReplay == InitReplay /\ [][NextReplay]_vars

(***************************************************************************)
(* SpecReducer: updateFromEvent applied to an empty vault store, over a    *)
(* sequence of vault events, the whole sequence twice in a row.            *)
(***************************************************************************)
ReducerEvents ==
    {MkEvent(ty, h, "included", a, v) :
        ty \in VaultEventTypes, h \in Hashes, a \in Addrs, v \in Variants}

InitReducer ==
    /\ MainOff /\ IpcEmpty /\ WorkerOff /\ StoreEmpty /\ HistEmpty
    /\ chain = <<>> /\ clock = 0 /\ restarts = 0 /\ IntervalDefault
    /\ rin \in SeqsUpTo(ReducerEvents, MaxLen)
    /\ rpos = 0 /\ ronce = {}
    /\ sc = [c \in 1..2 |-> IdleCaller]
    /\ CollectOff

\* The calls of VaultModel.updateFromEvent are made one after the other,
\* each awaited as in the loop of processEvents (line 274), with the next
\* event of the sequence (after the last event, the first again). sc[1] is
\* the call in progress.
ReducerEvent == rin[(rpos % Len(rin)) + 1]

ReducerReturns(vs) ==
    /\ rpos' = rpos + 1
    /\ clock' = clock + 1
    /\ ronce' = IF rpos' = Len(rin) THEN vs ELSE ronce

\* updateFromEvent lines 70-76: this.findOne returned. The vault it found
\* has the event's hash and the call returns false, or findOneAndUpdate is
\* awaited.
ReducerRead ==
    /\ rpos < 2 * Len(rin)
    /\ sc[1].pc = "idle"
    /\ IF SameTransaction(vaults, ReducerEvent)
       THEN /\ ReducerReturns(vaults)
            /\ sc' = [sc EXCEPT ![1].last = "false"]
       ELSE /\ sc' = [sc EXCEPT ![1] = [pc |-> "write",
                                        req |-> <<ReducerEvent>>,
                                        match |-> {}, last |-> "none"]]
            /\ UNCHANGED <<rpos, clock, ronce>>
    /\ UNCHANGED <<mainVars, ipcVars, workerVars, storeVars, chain, restarts,
                   blockCheckInterval, histVars, rin, collectVars>>

\* updateFromEvent lines 128-132: findOneAndUpdate wrote the vault and the
\* call returns true.
ReducerWrite ==
    /\ rpos < 2 * Len(rin)
    /\ sc[1].pc = "write"
    /\ LET e == sc[1].req[1]
       IN  vaults' = UpsertVault(vaults, e.addr,
                                 UpdateData(FindVault(vaults, e.addr), e, clock))
    /\ ReducerReturns(vaults')
    /\ sc' = [sc EXCEPT ![1] = [pc |-> "idle", req |-> <<>>, match |-> {},
                                last |-> "true"]]
    /\ UNCHANGED <<mainVars, ipcVars, workerVars, tracker, ledger, proofs,
                   chain, restarts, blockCheckInterval, histVars, rin,
                   collectVars>>

NextReducer == ReducerRead \/ ReducerWrite
SpecReducer == InitReducer /\ [][NextReducer]_vars

(***************************************************************************)
(* SpecLedger: EventModel.storeFromEvent called by two callers whose       *)
(* findOneAndUpdate upserts may overlap: each evaluates its filter, then   *)
(* writes; the unique index decides an insert.                             *)
(***************************************************************************)
LedgerEvents ==
    {MkEvent(ty, h, st, "A", v) :
        ty \in {"NewVault", "AdminUpdated"}, h \in Hashes, st \in Statuses,
        v \in Variants}

InitLedger ==
    /\ MainOff /\ IpcEmpty /\ WorkerOff /\ StoreEmpty /\ HistEmpty
    /\ chain = <<>> /\ clock = 0 /\ restarts = 0 /\ IntervalDefault
    /\ HarnessOff

\* storeFromEvent(e) starts: the upsert's filter is evaluated.
StoreBegin(c, e) ==
    /\ sc[c].pc = "idle"
    /\ clock < MaxStores
    /\ clock' = clock + 1
    /\ sc' = [sc EXCEPT ![c] = [pc |-> "write", req |-> <<e>>,
                                match |-> MatchEvent(ledger, e),
                                last |-> "none"]]
    /\ UNCHANGED <<mainVars, ipcVars, workerVars, storeVars, chain, restarts,
                   blockCheckInterval, histVars, rin, rpos, ronce,
                   collectVars>>

\* The upsert writes: an update of the matched document, an insert, or a
\* duplicate key error when another insert of the key came first.
StoreWrite(c) ==
    /\ sc[c].pc = "write"
    /\ LET r == UpsertEvent(ledger, sc[c].req[1], sc[c].match)
       IN  /\ ledger' = r.ledger
           /\ sc' = [sc EXCEPT ![c] =
                       [pc |-> "idle", req |-> <<>>, match |-> {},
                        last |-> IF ~r.ok THEN "duplicate"
                                 ELSE IF sc[c].match # {} THEN "updated"
                                 ELSE "inserted"]]
    /\ UNCHANGED <<mainVars, ipcVars, workerVars, tracker, vaults, proofs,
                   envVars, histVars, rin, rpos, ronce,
                   collectVars>>

\* The server retries an upsert that met a duplicate key: the filter is
\* evaluated again and now matches.
StoreRetry(c) ==
    /\ sc[c].pc = "write"
    /\ sc[c].match = {}
    /\ MatchEvent(ledger, sc[c].req[1]) # {}
    /\ sc' = [sc EXCEPT ![c].match = MatchEvent(ledger, sc[c].req[1])]
    /\ UNCHANGED <<mainVars, ipcVars, workerVars, storeVars, envVars,
                   histVars, rin, rpos, ronce,
                   collectVars>>

NextLedger ==
    \/ \E c \in 1..2, e \in LedgerEvents : StoreBegin(c, e)
    \/ \E c \in 1..2 : StoreWrite(c)
    \/ \E c \in 1..2 : StoreRetry(c)
SpecLedger == InitLedger /\ [][NextLedger]_vars

(***************************************************************************)
(* SpecCollect: the oracle configuration (part_005) and                    *)
(* OracleAggregator.collectSubmissions, called for block heights up to     *)
(* MaxHead under every chain and up to MaxParticipants + 1 oracles.         *)
(* Slots are numbered from 1 (index + 1 of the source).                    *)
(***************************************************************************)
\* The oracles an environment can name, by key pair number.
OracleIds == {1, 2, 3}
KeyPair(k) == [publicKey |-> k, privateKey |-> k + 10]
\* process.env.DEVNET_ORACLE_DUMMY_PUBLIC_KEY
DummyPublicKey == 0
\* An array element that does not exist (undefined).
NoKey == 0 - 1
\* UInt64.from(0.8e9)
OraclePrice == 800000000

\* process.env.NETWORK: the two chains the configuration knows, and
\* 'local' for every other value (config.network when NETWORK is unset).
Chains == {"devnet", "lightnet", "local"}

\* The oracles of the environment: on devnet NUMBER_OF_ORACLES key pairs
\* from DEVNET_ORACLE_<i>_PUBLIC_KEY / _PRIVATE_KEY, on lightnet
\* getNetworkKeys(chain).oracles, any number of them in both; on another
\* chain none is read.
EnvOracles(ch) ==
    IF ch \in {"devnet", "lightnet"}
    THEN SeqsUpTo(OracleIds, MaxParticipants + 1)
    ELSE {<<>>}

\* buildOracleWhitelist(chain): the public keys of the oracles; on devnet
\* the remaining slots, MAX_PARTICIPANTS - numOracles of them when that is
\* positive, hold the dummy public key; on lightnet no slot is added; on
\* another chain the whitelist is empty.
buildOracleWhitelist(ch, oracles) ==
    LET n == Len(oracles)
        remainingSlots == MaxParticipants - n
    IN  IF ch = "lightnet"
        THEN [i \in 1..n |-> KeyPair(oracles[i]).publicKey]
        ELSE IF ch = "devnet"
        THEN [i \in 1..(n + IF remainingSlots > 0 THEN remainingSlots ELSE 0)
                |-> IF i <= n THEN KeyPair(oracles[i]).publicKey
                    ELSE DummyPublicKey]
        ELSE <<>>

\* buildOracleKeyList(chain)
buildOracleKeyList(ch, oracles) ==
    IF ch \in {"lightnet", "devnet"}
    THEN [i \in 1..Len(oracles) |-> KeyPair(oracles[i])]
    ELSE <<>>

\* client.signFields(fields, privateKey) and Signature.empty()
SignFields(fields, privateKey) == [signer |-> privateKey, fields |-> fields]
EmptySignature == [signer |-> NoKey, fields |-> <<>>]

\* collectSubmissions(blockHeight): one PriceSubmission per slot.
collectSubmissions(blockHeight, cfg) ==
    [slot \in 1..MaxParticipants |->
        IF slot <= Len(cfg.oracleKeys)
        THEN [publicKey |-> cfg.oracleKeys[slot].publicKey,
              price |-> OraclePrice,
              signature |-> SignFields(<<OraclePrice, blockHeight>>,
                                       cfg.oracleKeys[slot].privateKey),
              blockHeight |-> blockHeight,
              isDummy |-> FALSE]
        ELSE [publicKey |-> IF slot <= Len(cfg.oracleWhitelist)
                            THEN cfg.oracleWhitelist[slot] ELSE NoKey,
              price |-> OraclePrice,
              signature |-> EmptySignature,
              blockHeight |-> blockHeight,
              isDummy |-> TRUE]]

InitCollect ==
    /\ MainOff /\ IpcEmpty /\ WorkerOff /\ StoreEmpty /\ HistEmpty
    /\ chain = <<>> /\ clock = 0 /\ restarts = 0 /\ IntervalDefault
    /\ rin = <<>> /\ rpos = 0 /\ ronce = {}
    /\ sc = [c \in 1..2 |-> IdleCaller]
    /\ \E ch \in Chains : \E oracles \in EnvOracles(ch) :
          oracleCfg = [chain |-> ch,
                       oracleKeys |-> buildOracleKeyList(ch, oracles),
                       oracleWhitelist |-> buildOracleWhitelist(ch, oracles)]
    /\ collected = NoCollect

\* One call of oracleAggregator.collectSubmissions(h) that returns.
CollectCall(h) ==
    /\ collected' = [blockHeight |-> h,
                     submissions |-> collectSubmissions(h, oracleCfg)]
    /\ UNCHANGED <<mainVars, ipcVars, workerVars, storeVars, envVars,
                   histVars, rin, rpos, ronce, sc, oracleCfg>>

NextCollect == \E h \in 1..MaxHead : CollectCall(h)
SpecCollect == InitCollect /\ [][NextCollect]_vars

(***************************************************************************)
(* Properties of the orchestrator and the worker.                          *)
(***************************************************************************)
\* The check of timer t had a request outstanding and this step ended it.
Settles(t) ==
    /\ ticks[t].pc = "await" /\ ticks'[t].pc # "await"
    /\ proc = "running" /\ proc' = "running"

\* This step sends a processBlock message to the worker.
SendsProcessBlock ==
    /\ Len(toWorker') = Len(toWorker) + 1
    /\ toWorker'[Len(toWorker')].type = "processBlock"

TrackerBlock(tr) ==
    IF tr = {} THEN NoBlock ELSE (CHOOSE b \in tr : TRUE).lastProcessedBlock

\* C1: at most one check is past the isProcessing guard at any moment, so
\* at most one processBlock request is outstanding; and a timer callback
\* that runs while isProcessing is true neither queries the head nor sends
\* a message: its check does not go on and the channel is untouched.
C1_SingleFlight ==
    /\ [](Cardinality({t \in TimerIds : ticks[t].pc \in {"fetch", "await"}})
            <= 1)
    /\ [][\A t \in TimerIds :
            (isProcessing /\ ticks[t].pc = "armed" /\ ticks'[t] # ticks[t])
                => /\ ticks'[t].pc \in {"armed", "late", "free"}
                   /\ toWorker' = toWorker]_vars

\* A check was skipped while the request of another check is outstanding.
C1_Witness ==
    /\ lastOutcome = "skipped"
    /\ isProcessing
    /\ \E t \in TimerIds : ticks[t].pc = "await"

\* C2: within a process the watermark changes only in a step that ends an
\* outstanding request with the worker's success message, and it becomes
\* the head of that request; head query failure, error reply, worker exit
\* and timeout leave it as it was.
C2_WatermarkOnlyOnSuccess ==
    [][/\ (currentBlockHeight' # currentBlockHeight
              /\ ~(proc = "exited" /\ proc' = "starting"))
          => \E t \in TimerIds :
                /\ Settles(t)
                /\ toMain # <<>> /\ Head(toMain).type = "success"
                /\ toMain' = Tail(toMain)
                /\ currentBlockHeight' = ticks[t].head
       /\ lastOutcome' \in {"headfail", "error", "exit", "timeout",
                            "sendfail"}
          => currentBlockHeight' = currentBlockHeight]_vars

\* After a success the next request got an error reply and the watermark
\* is still the head of the success.
C2_Witness ==
    /\ proc = "running"
    /\ lastOutcome = "error"
    /\ currentBlockHeight > 0
    /\ \E b \in tracker : b.lastProcessedBlock = currentBlockHeight

\* C3 (as claimed): the step in which a request times out signals the
\* worker, arms the exit timer and sends nothing; the exit timer is never
\* cancelled; no processBlock is sent while it is pending, so that the
\* stuck request is not tried again in the process; and the process then
\* exits with code 1.
C3_TimeoutIsFatal ==
    [][/\ \A t \in TimerIds :
            (Settles(t) /\ lastOutcome' = "timeout")
                => /\ graceArmed'
                   /\ wstate = "running" => wsig'
                   /\ toWorker' = toWorker
       /\ graceArmed => (graceArmed' \/ proc' = "exited")
       /\ graceArmed => ~SendsProcessBlock
       /\ (graceArmed /\ proc' = "exited")
            => (exitCode' = FatalExitCode /\ exitCode' # 0)]_vars

\* C4 (as claimed): once the worker's exit has ended an outstanding
\* request, the exit timer is pending, as it is after a timeout.
C4_WorkerExitIsFatal ==
    (proc = "running" /\ lastOutcome = "exit") => graceArmed

\* C5 (as claimed): the step in which an error reply ends a request leaves
\* the process
\* running, the watermark as it was, no signal sent and no exit timer
\* armed, clears isProcessing and schedules the next check; a check that
\* goes on to a request sends processBlock for a head above the watermark;
\* and a pass that starts after a failed request starts from the fromBlock
\* of that request.
C5_ErrorReplyRetries ==
    /\ [][/\ \A t \in TimerIds :
               (Settles(t) /\ lastOutcome' = "error")
                   => /\ currentBlockHeight' = currentBlockHeight
                      /\ graceArmed' = graceArmed /\ wsig' = wsig
                      /\ exitCode' = NoCode
                      /\ ~isProcessing'
                      /\ (isWatching /\ ~graceArmed)
                            => ticks'[t].pc = "armed"
          /\ \A t \in TimerIds :
               (ticks[t].pc = "fetch" /\ ticks'[t].pc = "await")
                   => /\ ticks'[t].head > currentBlockHeight
                      /\ Connected => /\ SendsProcessBlock
                                      /\ toWorker'[Len(toWorker')].blockHeight
                                            = ticks'[t].head]_vars
    /\ [](\A k \in HandlerIds :
          (worker[k].pc \in PassPcs /\ prevFrom # NoBlock)
            => worker[k].from = prevFrom)

\* C13: a check that finds the head above the watermark sends exactly one
\* processBlock message, for the head itself; processBlock is sent in no
\* other step, so none is sent for a block between watermark and head;
\* and when the pass for a target has succeeded lastProcessedBlock equals
\* that target, whatever the pass fetched.
C13_OneRequestForHead ==
    /\ [][/\ \A t \in TimerIds :
               (ticks[t].pc = "fetch" /\ ticks'[t].pc = "await")
                   => /\ ticks'[t].head > currentBlockHeight
                      /\ Connected
                            => toWorker' = Append(toWorker,
                                                  ProcessBlock(ticks'[t].head))
          /\ SendsProcessBlock
                => Cardinality({t \in TimerIds :
                       ticks[t].pc = "fetch" /\ ticks'[t].pc = "await"}) = 1]_vars
    /\ [](\A k \in HandlerIds :
          worker[k].pc = "done" => TrackerBlock(tracker) = worker[k].target)

\* The first request of a run was for head 2 with the watermark at 0; its
\* pass has succeeded and the checkpoint went from 0 to 2 with no request
\* for block 1.
C13_Witness ==
    \E k \in HandlerIds :
    /\ proc = "running" /\ restarts = 0 /\ clock = 1
    /\ currentBlockHeight = 0
    /\ \E t \in TimerIds : ticks[t].pc = "await" /\ ticks[t].head = 2
    /\ toWorker = <<>>
    /\ worker[k].pc = "done" /\ worker[k].target = 2
    /\ TrackerBlock(passStart.tracker) = 0
    /\ TrackerBlock(tracker) = 2

\* C15 (as claimed): at most one check timer is pending at any moment,
\* and a check timer is pending or a check is running, never both: the
\* next check is armed only once the previous one has completed.
C15_OneTimerSequentialTicks ==
    Cardinality({t \in TimerIds : ticks[t].pc # "free"}) <= 1

\* This step sends the worker's initialized message.
SendsInitialized ==
    /\ Len(toMain') = Len(toMain) + 1
    /\ toMain'[Len(toMain')].type = "initialized"

\* C17: processBlock is sent only by a main process that has received
\* initialized (it starts running only in the step that takes that message
\* off the channel); the worker sends initialized only in the step that
\* ends its startup, after the bindings, the database connection, the
\* checkpoint (which then exists) and proof.init() in this order (the
\* worker runs from then on, or ends with that send when the main process
\* has exited); a running worker never starts up again, so initialized is
\* sent and init runs once per worker lifetime; and no block is handled by
\* a worker that is still starting.
C17_InitializedFirstAndOnce ==
    /\ [][/\ SendsProcessBlock => (proc = "running" /\ blockWorker)
          /\ (proc # "running" /\ proc' = "running")
                => /\ toMain # <<>> /\ Head(toMain).type = "initialized"
                   /\ toMain' = Tail(toMain)
          /\ SendsInitialized
                => /\ wstate = "starting"
                   /\ wstate' = IF MainGone THEN "exited" ELSE "running"
                   /\ StartupPc = "compile"
                   /\ tracker # {}
          /\ (StartupPc' \in InitPcs /\ StartupPc' # StartupPc)
                => \/ wstate = "exited" /\ StartupPc' = "bindings"
                   \/ /\ wstate = "starting" /\ StartupPc \in InitPcs
                      /\ StartupPc' = NextInitPc(StartupPc)
          /\ wstate = "running" => wstate' # "starting"]_vars
    /\ [](\A k \in HandlerIds :
          worker[k].pc \in HandlerPcs => wstate # "starting")
    /\ [](StartupPc \in InitPcs <=> wstate = "starting")

\* The second worker of a run has started up, its initialized message was
\* received, and it computes the proof of a block the main process sent.
C17_Witness ==
    \E k \in HandlerIds :
    /\ restarts = 1
    /\ proc = "running" /\ blockWorker
    /\ wstate = "running" /\ worker[k].pc = "proof"
    /\ \E t \in TimerIds : ticks[t].pc = "await"
                             /\ ticks[t].head = worker[k].target

\* The worker has ended before the main process received initialized: it
\* reported a startup error, or exited without a word with any exit code.
StartupFailed == proc = "starting" /\ wstate = "exited"

\* C18: once the worker has ended before the main process received
\* initialized, the orchestrator is not started and no step starts it
\* (the main process stays in startup until it exits); and when the
\* worker's message and exit event are delivered to initBlockWorker and
\* the runtime ends a process that nothing can call any more, the main
\* process exits.
C18_StartupFailureIsFatal ==
    /\ [](StartupFailed => (~isWatching /\ ~blockWorker))
    /\ [][StartupFailed
            => /\ proc' \in {"starting", "exited"}
               /\ ~isWatching' /\ ~blockWorker'
               /\ \A t \in TimerIds : ticks'[t].pc = "free"]_vars
    /\ ((/\ WF_vars(MainInitFailed) /\ WF_vars(MainIgnoresExit)
         /\ WF_vars(MainRunsOut))
            => (StartupFailed ~> (proc = "exited")))

\* The worker exited in its startup and the main process has exited
\* without ever having started the orchestrator.
C18_Witness ==
    /\ proc = "exited" /\ wstate = "exited"
    /\ tracker = {} /\ lastOutcome = "none" /\ currentBlockHeight = 0
    /\ ~isWatching /\ ~blockWorker
    /\ exitEvent = NoCode /\ toMain = <<>>

\* C19 (as claimed, the main process's half): the main process exits from
\* shutdown() (exit code 0) only when the worker process has exited.
C19_ShutdownWaitsForWorker ==
    [][(proc # "exited" /\ proc' = "exited" /\ exitCode' = 0)
          => wstate \in {"off", "exited"}]_vars

\* C21 (as claimed): no two ProofRecords have the same blockHeight, and a
\* step never changes or removes a ProofRecord that exists: the collection
\* only grows at its end.
C21_OneProofPerHeight ==
    /\ [](\A i, j \in 1..Len(proofs) :
            proofs[i].blockHeight = proofs[j].blockHeight => i = j)
    /\ [][/\ Len(proofs') >= Len(proofs)
          /\ \A i \in 1..Len(proofs) : proofs'[i] = proofs[i]]_vars

\* The place of a handler position in the cycle's order of steps.
StepRank(pc) ==
    CASE pc = "collect" -> 1
      [] pc = "proof" -> 2
      [] pc = "save" -> 3
      [] pc \in {"tracker"} \cup PassPcs -> 4
      [] pc = "done" -> 5
      [] OTHER -> 0

\* This step sends a reply of the given type to the main process.
SendsReply(ty) ==
    /\ Len(toMain') = Len(toMain) + 1
    /\ toMain'[Len(toMain')].type = ty

\* C22: a running worker's handler moves from a step only to the same or
\* the next step of collect, compute, persist, reconcile, done, or to
\* failed; a ProofRecord is written only by the persist step and the
\* ledger, the vaults and (after startup) the checkpoint only by the
\* reconcile steps; success is sent only from done with the checkpoint at
\* the target, error only from failed; and from failed the handler only
\* replies: the failing step and the reply leave the store as it was.
C22_CycleStepOrder ==
    [][(wstate = "running" /\ wstate' = "running")
          => /\ \A k \in HandlerIds :
                  (worker[k].pc \in HandlerPcs /\ worker'[k].pc # worker[k].pc)
                   => \/ worker'[k].pc = "failed" /\ storeVars' = storeVars
                      \/ /\ StepRank(worker'[k].pc) >= StepRank(worker[k].pc)
                         /\ StepRank(worker'[k].pc) <= StepRank(worker[k].pc) + 1
             /\ proofs' # proofs
                   => \E k \in HandlerIds :
                      /\ worker[k].pc = "save" /\ worker'[k].pc = "tracker"
                      /\ proofs' = Append(proofs,
                                          [blockHeight |-> worker[k].target,
                                           timestamp |-> worker[k].now])
             /\ <<tracker, ledger, vaults>>' # <<tracker, ledger, vaults>>
                   => \E k \in HandlerIds :
                         worker[k].pc \in PassPcs /\ worker'[k] # worker[k]
             /\ SendsReply("success")
                   => /\ \E k \in HandlerIds :
                            /\ worker[k].pc = "done" /\ worker'[k].pc = "idle"
                            /\ TrackerBlock(tracker) = worker[k].target
                      /\ storeVars' = storeVars
             /\ SendsReply("error")
                   => /\ \E k \in HandlerIds :
                            worker[k].pc = "failed" /\ worker'[k].pc = "idle"
                      /\ storeVars' = storeVars
             /\ \A k \in HandlerIds :
                  /\ (worker[k].pc = "done" /\ worker'[k].pc # "done")
                        => SendsReply("success")
                  /\ (worker[k].pc = "failed" /\ worker'[k].pc # "failed")
                        => SendsReply("error")]_vars

\* The proof of the requested height was persisted, reconciliation then
\* failed before storing anything, and the only reply is error: the
\* checkpoint has not moved.
C22_Witness ==
    /\ wstate = "running" /\ worker = IdleHandlers /\ restarts = 0
    /\ Len(toMain) = 1 /\ toMain[1].type = "error"
    /\ toMain[1].error = RawStoreError
    /\ Len(proofs) = 1 /\ proofs[1].blockHeight > 0
    /\ ledger = <<>>
    /\ TrackerBlock(tracker) = 0

\* C24 (as claimed): while the orchestrator is stopped (stop() was called
\* and start() has not been called since) no timer callback runs, so no
\* checkNewBlock begins; and stop() on a stopped orchestrator changes
\* nothing.
C24_StopEndsChecks ==
    [][(proc = "running" /\ proc' = "running" /\ ~isWatching)
          => /\ \A t \in TimerIds :
                  ticks[t].pc = "armed"
                      => (ticks'[t].pc \in {"armed", "free"}
                          /\ lastOutcome' = lastOutcome)
             /\ ~isWatching'
                   => StoppedTicks(ticks, watchTimeout) = ticks]_vars

WatchingOn == proc = "running" /\ isWatching /\ ~graceArmed

\* The check of timer t is in flight: past the isProcessing guard and not
\* ended yet.
InFlight(t) == ticks[t].pc \in {"fetch", "await"}

\* C26 (as claimed): while the orchestrator watches and no timeout has
\* been met, the
\* step that ends a check with any outcome but the timeout (no new block,
\* head query failed, send failed, error reply, worker exit, success)
\* leaves the process running with no exit timer and the check timer set
\* anew and kept in watchTimeout; the process exits only on the exit timer
\* or in shutdown(); there is always a check armed or in flight; a check
\* in flight ends and an armed check runs, so that checks go on for ever.
C26_TicksGoOn ==
    /\ [][/\ \A t \in TimerIds :
               (WatchingOn /\ InFlight(t) /\ ~InFlight(t)'
                    /\ lastOutcome' # "timeout")
                   => /\ proc' = "running" /\ exitCode' = exitCode
                      /\ ~graceArmed' /\ isWatching'
                      /\ ticks'[t].pc = "armed" /\ watchTimeout' = t
                      /\ ~isProcessing'
          /\ (proc = "running" /\ proc' = "exited")
               => (graceArmed \/ shutPc = "waitExit")]_vars
    /\ [](WatchingOn => \E t \in TimerIds :
                            ticks[t].pc = "armed" \/ InFlight(t))
    /\ \A t \in TimerIds :
          /\ (WatchingOn /\ InFlight(t))
                ~> (ticks[t].pc = "armed" \/ ~WatchingOn)
          /\ (WatchingOn /\ ticks[t].pc = "armed")
                ~> (InFlight(t) \/ ~WatchingOn)

\* C27: in a pass the fetch starts at the lastProcessedBlock of the
\* checkpoint read at the start of the pass, or at its startBlock when
\* lastProcessedBlock is 0, whatever the target height is; the events of
\* the pass are those of the chain at or above that start.
C27_FetchStart ==
    /\ [](\A k \in HandlerIds :
          worker[k].pc \in PassPcs
            => \E b \in passStart.tracker :
                  /\ b.lastProcessedBlock # 0
                        => worker[k].from = b.lastProcessedBlock
                  /\ b.lastProcessedBlock = 0
                        => worker[k].from = b.startBlock)
    /\ [](\A k \in HandlerIds :
          worker[k].pc \in PassPcs \ {"fetch"}
            => /\ \A i \in 1..Len(worker[k].events) :
                     worker[k].events[i].height >= worker[k].from
               /\ \A i \in 1..Len(chain) :
                     (chain[i].height >= worker[k].from
                         /\ chain[i].height <= worker[k].target)
                       => \E j \in 1..Len(worker[k].events) :
                             worker[k].events[j] = chain[i])
    /\ [][\A k \in HandlerIds :
          (worker[k].pc = "tracker" /\ worker'[k].pc = "fetch")
            => /\ passStart'.tracker = tracker /\ tracker' = tracker
               /\ worker'[k].target = worker[k].target]_vars

\* A pass for target 2 on a checkpoint whose lastProcessedBlock is 0 and
\* whose startBlock is 2 has fetched from block 2: the event of block 1 is
\* not among its events.
C27_Witness ==
    \E k \in HandlerIds :
    /\ worker[k].pc = "find" /\ worker[k].target = 2
    /\ \E b \in passStart.tracker :
          b.lastProcessedBlock = 0 /\ b.startBlock = 2
    /\ worker[k].from = 2
    /\ Len(chain) = 2 /\ chain[1].height = 1 /\ chain[2].height = 2
    /\ worker[k].events = <<chain[2]>>

\* The ledger l holds a row with the compound key of event e.
KeyInLedger(l, e) ==
    \E i \in 1..Len(l) : /\ l[i].transactionHash = e.hash
                          /\ l[i].chainStatus = e.status

\* C28: when the pass looks up an event whose (transactionHash,
\* chainStatus) is in the ledger and the lookup returns, the pass goes on
\* to the next event: ledger, vaults and tracker are as before, the list
\* of updated events is as before and the pass has not failed; an event is
\* stored only when its key is not in the ledger, and the reducer runs only
\* on an event that the pass has just stored.
C28_KnownEventSkipped ==
    [][/\ \A k \in HandlerIds :
          /\ (/\ worker[k].pc = "find"
               /\ worker[k].i <= Len(worker[k].events)
               /\ KeyInLedger(ledger, worker[k].events[worker[k].i])
               /\ worker'[k] # worker[k] /\ worker'[k].pc # "failed")
             => /\ ledger' = ledger /\ vaults' = vaults /\ tracker' = tracker
                /\ worker'[k] = [worker[k] EXCEPT !.i = worker[k].i + 1,
                                                  !.now = worker'[k].now]
          /\ (worker[k].pc # "store" /\ worker'[k].pc = "store")
             => /\ worker[k].pc = "find"
                /\ ~KeyInLedger(ledger, worker[k].events[worker[k].i])
          /\ (worker[k].pc # "update" /\ worker'[k].pc = "update")
             => /\ worker[k].pc = "store"
                /\ ~KeyInLedger(ledger, worker[k].events[worker[k].i])
                /\ KeyInLedger(ledger', worker[k].events[worker[k].i])
          /\ (worker[k].pc # "upsert" /\ worker'[k].pc = "upsert")
             => worker[k].pc = "update"
          /\ worker'[k].updated # worker[k].updated
             => worker[k].pc \in {"upsert", "fetch", "idle"}
       /\ vaults' # vaults
             => \E k \in HandlerIds :
                   worker[k].pc = "upsert" /\ worker'[k].pc = "find"]_vars

\* The second pass has fetched an event that the first pass stored and has
\* passed over it: ledger, vaults and the updated list are as they were
\* when the pass began.
C28_Witness ==
    \E k \in HandlerIds :
    /\ clock = 2 /\ worker[k].pc = "find" /\ worker[k].i = 2
    /\ Len(worker[k].events) >= 1
    /\ KeyInLedger(ledger, worker[k].events[1])
    /\ isVaultEvent(worker[k].events[1].type)
    /\ worker[k].updated = <<>>
    /\ passStart.ledger = ledger /\ passStart.vaults = vaults
    /\ Len(ledger) = 1 /\ vaults # {}

\* The events of evs, in order, that are not in the ledger when their turn
\* comes, are of a vault type and make the reducer report a change, when
\* the pass starts with ledger l and vaults vs at time now.
RECURSIVE ReportedEvents(_, _, _, _)
ReportedEvents(evs, l, vs, now) ==
    IF evs = <<>> THEN <<>>
    ELSE LET e == Head(evs)
         IN  IF KeyInLedger(l, e)
             THEN ReportedEvents(Tail(evs), l, vs, now)
             ELSE IF e.type \in VaultEventTypes
             THEN (IF UpdateFromEventChanged(vs, e) THEN <<e>> ELSE <<>>)
                  \o ReportedEvents(Tail(evs), StoreFromEvent(l, e),
                                    UpdateFromEventVaults(vs, e, now), now)
             ELSE ReportedEvents(Tail(evs), StoreFromEvent(l, e), vs, now)

\* C29: the list a pass returns is the sequence of its fetched events, in
\* fetch order, that were not in the ledger, are of a vault type and made
\* the reducer report a change. An event of a protocol type that was not
\* in the ledger is stored there, the step that stores it goes on to the
\* next event without a change of the vaults, and no event of a protocol
\* type is in the list; the vaults change only for a vault event.
C29_ReturnedList ==
    /\ [](\A k \in HandlerIds :
          worker[k].pc = "done"
            => /\ worker[k].updated
                    = ReportedEvents(worker[k].events, passStart.ledger,
                                     passStart.vaults, clock)
               /\ \A i \in 1..Len(worker[k].updated) :
                     /\ worker[k].updated[i].type \in VaultEventTypes
                     /\ worker[k].updated[i].type \notin ProtocolEventTypes
                     /\ ~KeyInLedger(passStart.ledger, worker[k].updated[i])
               /\ \A i \in 1..Len(worker[k].events) :
                     \E j \in 1..Len(ledger) :
                        /\ ledger[j].transactionHash = worker[k].events[i].hash
                        /\ ledger[j].chainStatus = worker[k].events[i].status)
    /\ [][/\ \A k \in HandlerIds :
             /\ (worker[k].pc = "store"
                   /\ worker[k].events[worker[k].i].type \in ProtocolEventTypes
                   /\ worker'[k].pc # "failed")
                 => /\ worker'[k] = [worker[k] EXCEPT !.pc = "find",
                                                      !.i = worker[k].i + 1,
                                                      !.now = worker'[k].now]
                    /\ KeyInLedger(ledger', worker[k].events[worker[k].i])
                    /\ ledger'[Len(ledger')].type
                          = worker[k].events[worker[k].i].type
                    /\ vaults' = vaults
             /\ (worker[k].pc = "update" /\ worker'[k].pc = "find")
                 => /\ worker'[k].updated = worker[k].updated
                    /\ vaults' = vaults
             /\ (worker[k].pc = "upsert" /\ worker'[k].pc = "find")
                 => worker'[k].updated
                      = Append(worker[k].updated, worker[k].events[worker[k].i])
          /\ vaults' # vaults
              => \E k \in HandlerIds :
                    /\ worker[k].pc = "upsert" /\ worker'[k].pc = "find"
                    /\ worker[k].events[worker[k].i].type \in VaultEventTypes]_vars

\* A pass has returned after an event of a protocol type and a NewVault
\* event, both new: both are in the ledger, one vault exists and the list
\* holds the NewVault event alone.
C29_Witness ==
    \E k \in HandlerIds :
    /\ worker[k].pc = "done" /\ Len(worker[k].events) = 2
    /\ worker[k].events[1].type \in ProtocolEventTypes
    /\ worker[k].events[2].type = "NewVault"
    /\ worker[k].updated = <<worker[k].events[2]>>
    /\ Len(ledger) = 2 /\ Cardinality(vaults) = 1

\* C30: a call of updateFromEvent with event e whose transaction hash is
\* the latestTransactionHash of the vault at e's address returns false and
\* leaves every vault as it was; any other call returns true and leaves the
\* vault at e's address with latestTransactionHash e's hash and
\* lastUpdateBlock e's block height.
C30_SameTransactionGuard ==
    [][(rpos' = rpos + 1 /\ Len(rin) > 0)
          => LET e == rin[(rpos % Len(rin)) + 1]
                 same == \E v \in vaults :
                            /\ v.address = e.addr
                            /\ v.latestTransactionHash = e.hash
                 new == {v \in vaults' : v.address = e.addr}
             IN  /\ same => /\ vaults' = vaults
                            /\ UpdateFromEventChanged(vaults, e) = FALSE
                 /\ ~same => /\ UpdateFromEventChanged(vaults, e) = TRUE
                             /\ new # {}
                             /\ \A n \in new :
                                  /\ n.latestTransactionHash = e.hash
                                  /\ n.lastUpdateBlock = e.height]_vars

\* A NewVault of block 1 made vault A; a deposit of block 2 in the same
\* transaction was then passed over: the vault still has no collateral and
\* its lastUpdateBlock is 1.
C30_Witness ==
    /\ Len(rin) = 2 /\ rpos = 2
    /\ rin[1].type = "NewVault" /\ rin[1].height = 1
    /\ rin[2].type = "DepositCollateral" /\ rin[2].height = 2
    /\ rin[1].addr = "A" /\ rin[2].addr = "A"
    /\ rin[1].hash = rin[2].hash
    /\ \E v \in vaults : /\ v.address = "A" /\ v.collateralAmount = 0
                         /\ v.latestTransactionHash = rin[1].hash
                         /\ v.lastUpdateBlock = 1

\* The vaults after the transition table has been applied to every vault
\* event of evs in order, starting from the vaults vs.
RECURSIVE TableFold(_, _, _)
TableFold(evs, vs, now) ==
    IF evs = <<>> THEN vs
    ELSE LET e == Head(evs)
         IN  IF e.type \in VaultEventTypes
             THEN TableFold(Tail(evs),
                            UpsertVault(vs, e.addr,
                                        UpdateData(FindVault(vs, e.addr), e,
                                                   now)),
                            now)
             ELSE TableFold(Tail(evs), vs, now)

\* C31 (as claimed): when a pass that began with an empty ledger and no
\* vault has succeeded, the vaults are those obtained by applying the
\* transition table to all fetched vault events in fetch order: each vault
\* shows the last fetched event of its address.
C31_FoldInFetchOrder ==
    \A k \in HandlerIds :
    (worker[k].pc = "done" /\ passStart.ledger = <<>> /\ passStart.vaults = {})
        => vaults = TableFold(worker[k].events, {}, clock)

\* C32: from the call of handleBlock until the proof computation has
\* returned no store is written; when the computation raises, handleBlock
\* ends with that error and writes nothing on its way out: the proof
\* records, the ledger, the vaults and the checkpoint after the cycle are
\* those before it.
C32_ComputeFailurePersistsNothing ==
    [][\A k \in HandlerIds :
       /\ worker[k].pc \in {"collect", "proof", "failed"}
           => /\ proofs' = proofs /\ ledger' = ledger
              /\ vaults' = vaults /\ tracker' = tracker
       /\ (worker[k].pc = "proof" /\ worker'[k].pc # "proof")
           => worker'[k].pc \in {"save", "failed"}
       /\ (worker[k].pc = "failed" /\ worker'[k].pc # "failed")
           => worker'[k].pc = "idle"
       /\ (worker[k].pc = "idle" /\ worker'[k].pc # "idle")
           => worker'[k].pc = "collect"]_vars

\* The second cycle, for a height above the checkpoint with an event to
\* reconcile, has failed in the proof computation: the only proof record
\* is the first cycle's and the checkpoint is where the first cycle left
\* it.
C32_Witness ==
    \E k \in HandlerIds :
    /\ clock = 2 /\ worker[k].pc = "failed" /\ worker[k].err = RawComputeError
    /\ Len(proofs) = 1 /\ proofs[1].blockHeight = TrackerBlock(tracker)
    /\ worker[k].target > TrackerBlock(tracker)
    /\ \E i \in 1..Len(chain) :
          /\ chain[i].height = worker[k].target
          /\ ~KeyInLedger(ledger, chain[i])

\* C33: when ProofModel.create raises after the proof was computed,
\* handleBlock ends with the error 'Failed to save proof', which no other
\* step produces; the stores are as they were, the handler goes on to
\* nothing but its error reply, which carries that message, so the write
\* is not tried again and the pass does not run; and the check that
\* receives the reply leaves the watermark where it was.
C33_SaveFailureEndsCycle ==
    [][\A k \in HandlerIds :
       /\ (worker[k].pc = "save" /\ worker'[k].pc = "failed")
           => /\ worker'[k].err = SaveFailed
              /\ proofs' = proofs /\ tracker' = tracker
              /\ ledger' = ledger /\ vaults' = vaults
       /\ (worker'[k].err = SaveFailed /\ worker[k].err # SaveFailed)
           => worker[k].pc = "save"
       /\ (wstate = "running" /\ wstate' = "running"
             /\ worker[k].pc = "failed" /\ worker'[k] # worker[k])
           => /\ worker'[k].pc = "idle"
              /\ toMain' = Append(toMain, [type |-> "error",
                                           error |-> worker[k].err])
              /\ proofs' = proofs /\ tracker' = tracker
              /\ ledger' = ledger /\ vaults' = vaults
       /\ \A t \in TimerIds :
            (Settles(t) /\ toMain # <<>> /\ toMain' = Tail(toMain)
                 /\ Head(toMain) = [type |-> "error", error |-> SaveFailed])
               => /\ currentBlockHeight' = currentBlockHeight
                  /\ lastOutcome' = "error"
                  /\ tracker' = tracker]_vars

\* The first request failed in the write of the proof record: its error
\* reply with the save failure's message waits for the main process, no
\* proof record exists, checkpoint and watermark have not moved.
C33_Witness ==
    \E k \in HandlerIds :
    /\ proc = "running" /\ wstate = "running" /\ worker = IdleHandlers
    /\ toMain = <<[type |-> "error", error |-> SaveFailed]>>
    /\ \E t \in TimerIds : ticks[t].pc = "await" /\ ticks[t].head > 0
    /\ clock = 1 /\ proofs = <<>>
    /\ TrackerBlock(tracker) = 0 /\ currentBlockHeight = 0

\* The category the specification names for a failed proof computation;
\* the sources hold no such message.
ProofGenerationFailed == <<"proof", "generation", "failed">>

\* C34 (as claimed): a handler that fails in the collection ends with the
\* collection category and one that fails in the proof computation ends
\* with the proof generation category, and the error reply carries the
\* category the handler ended with.
C34_NamedCategoriesOnly ==
    [][\A k \in HandlerIds :
       /\ (worker[k].pc = "collect" /\ worker'[k].pc = "failed")
           => worker'[k].err = CollectionFailed
       /\ (worker[k].pc = "proof" /\ worker'[k].pc = "failed")
           => worker'[k].err = ProofGenerationFailed
       /\ (wstate = "running" /\ wstate' = "running"
             /\ worker[k].pc = "failed" /\ worker'[k].pc = "idle")
           => /\ Len(toMain') = Len(toMain) + 1
              /\ toMain'[Len(toMain')].error = worker[k].err]_vars

\* C35: a running worker sends a message to the main process only in the
\* step that ends a handler, and then exactly one, success after
\* handleBlock returned and error after it raised; a handler starts only by
\* taking a processBlock message, removing that one message; and a handler
\* that has ended leaves that state only by this reply, unless the worker
\* process ends.
C35_OneReplyPerRequest ==
    [][/\ (wstate = "running" /\ toMain' # toMain
             /\ Len(toMain') >= Len(toMain))
           => \E k \in HandlerIds :
              /\ worker[k].pc \in {"done", "failed"} /\ worker'[k].pc = "idle"
              /\ Len(toMain') = Len(toMain) + 1
              /\ \A i \in 1..Len(toMain) : toMain'[i] = toMain[i]
              /\ toMain'[Len(toMain')].type
                    = IF worker[k].pc = "done" THEN "success" ELSE "error"
              /\ \A j \in HandlerIds \ {k} : worker'[j] = worker[j]
       /\ \A k \in HandlerIds :
          /\ (wstate = "running" /\ wstate' = "running"
                /\ worker[k].pc \in {"done", "failed"}
                /\ worker'[k] # worker[k])
              => /\ worker'[k].pc = "idle"
                 /\ Len(toMain') = Len(toMain) + 1
          /\ (wstate = "running" /\ worker[k].pc = "idle"
                /\ worker'[k].pc # "idle" /\ wstate' = "running")
              => /\ worker'[k].pc = "collect"
                 /\ toWorker # <<>> /\ Head(toWorker).type = "processBlock"
                 /\ toWorker' = Tail(toWorker)
                 /\ worker'[k].target = Head(toWorker).blockHeight
                 /\ toMain' = toMain]_vars

\* The worker has handled two requests: the reply to the first advanced
\* the watermark, the reply to the second is the only message on its way.
C35_Witness ==
    /\ proc = "running" /\ wstate = "running" /\ worker = IdleHandlers
    /\ clock = 2 /\ currentBlockHeight > 0
    /\ toWorker = <<>> /\ Len(toMain) = 1
    /\ toMain[1].type \in {"success", "error"}
    /\ Len(proofs) = 2
    /\ \E t \in TimerIds : ticks[t].pc = "await"

\* isProcessing is true exactly while a check is past the guard and has
\* not ended; it becomes true only in the step in which a timer's check
\* passes the guard, and the step that ends a check in flight leaves it
\* false whatever the outcome.
FlagBracketsCheck ==
    /\ [](isProcessing <=> \E t \in TimerIds : InFlight(t))
    /\ [][/\ \A t \in TimerIds :
               (InFlight(t) /\ ~InFlight(t)') => ~isProcessing'
          /\ (~isProcessing /\ isProcessing')
               => \E t \in TimerIds : /\ ticks[t].pc = "armed"
                                       /\ ticks'[t].pc = "fetch"]_vars

C37_CheckpointImpliesProof ==
    /\ [][(tracker # {} /\ TrackerBlock(tracker') # TrackerBlock(tracker))
            => /\ \E k \in HandlerIds :
                     /\ worker[k].pc = "find" /\ worker'[k].pc = "done"
                     /\ TrackerBlock(tracker') = worker[k].target
               /\ \E i \in 1..Len(proofs) :
                     proofs[i].blockHeight = TrackerBlock(tracker')
               /\ proofs' = proofs]_vars
    /\ [](\A b \in tracker :
            b.lastProcessedBlock # b.startBlock
                => \E i \in 1..Len(proofs) :
                      proofs[i].blockHeight = b.lastProcessedBlock)

\* The second cycle has moved the checkpoint from 1 to 2; the proof
\* records of both heights are in the store.
C37_Witness ==
    \E k \in HandlerIds :
    /\ worker[k].pc = "done" /\ clock = 2 /\ worker[k].target = 2
    /\ TrackerBlock(tracker) = 2
    /\ Len(proofs) = 2
    /\ proofs[1].blockHeight = 1 /\ proofs[2].blockHeight = 2

\* No cycle is in flight anywhere: no check is past the guard, the worker
\* has no handler running and the channel holds no processBlock and no reply.
NoCycleInFlight ==
    /\ ~isProcessing /\ \A t \in TimerIds : ~InFlight(t)
    /\ worker = IdleHandlers
    /\ toMain = <<>>
    /\ \A i \in 1..Len(toWorker) : toWorker[i].type # "processBlock"

C39_NoRequestInGraceDelay ==
    [][graceArmed => ~SendsProcessBlock]_vars

\* C40 (as claimed): when the worker process keeps taking its steps, reads
\* the shutdown messages it is sent, its close of the database connection
\* returns, its 'exit' event is delivered, the 'error' of a refused send
\* is emitted and handled and the runtime ends a process that nothing can
\* call any more, a shutdown() that did not exit in the step that called
\* it is followed by the exit of the main process, whatever state the
\* worker was in when it was called and however many signals follow.
C40_ShutdownEndsProcess ==
    (/\ WF_vars(WatchWorkerStep) /\ WF_vars(WorkerTakeShutdown)
     /\ WF_vars(WorkerShutdown) /\ WF_vars(RecvExit)
     /\ WF_vars(MainRunsOut)
     /\ WF_vars(UncaughtShutdown) /\ WF_vars(EmitError))
        => ((shutPc # "none") ~> (proc = "exited"))

\* C6 (as claimed): when a pass has succeeded, lastProcessedBlock is at
\* least what it was when the pass started.
C6_CheckpointNonDecreasing ==
    \A k \in HandlerIds :
    worker[k].pc = "done" =>
        TrackerBlock(tracker) >= TrackerBlock(passStart.tracker)

(***************************************************************************)
(* Properties of the reducer and the ledger.                               *)
(***************************************************************************)
\* The fields of a VaultAggregate that identify its state.
Aggregate(v) ==
    [address |-> v.address, owner |-> v.owner,
     collateralAmount |-> v.collateralAmount, debtAmount |-> v.debtAmount,
     latestTransactionHash |-> v.latestTransactionHash]
Aggregates(vs) == {Aggregate(v) : v \in vs}

\* C9: reducer idempotence. Once a sequence of vault events has been
\* applied twice in a row to an empty vault store, the set of
\* VaultAggregates (address, owner, collateral, debt, latestTransactionHash)
\* equals the set the first application produced.
C9_ReducerIdempotent ==
    rpos = 2 * Len(rin) => Aggregates(vaults) = Aggregates(ronce)

\* A NewVault and a later deposit of another transaction on the same vault
\* have both been applied twice: the second round re-applied both.
C9_Witness ==
    /\ Len(rin) = 2 /\ rpos = 4
    /\ rin[1].type = "NewVault" /\ rin[2].type = "DepositCollateral"
    /\ rin[1].addr = rin[2].addr /\ rin[1].hash # rin[2].hash
    /\ \E v \in vaults : v.collateralAmount = 50

\* The types whose events carry the vault's amounts.
AmountTypes ==
    {"DepositCollateral", "RedeemCollateral", "MintZkUsd", "BurnZkUsd"}

\* C14: a call of updateFromEvent that applies event e (its transaction is
\* not the vault's latest) leaves exactly one vault at e's address, with
\* owner, collateral and debt as the transition table gives them: NewVault
\* sets (e.owner, 0, 0); VaultOwnerUpdated sets the owner to e.newOwner;
\* the four amount types set collateral and debt to the event's amounts;
\* Liquidate sets both to 0; a field the type does not name keeps the value
\* it had; and the vaults of other addresses are untouched.
C14_TransitionTable ==
    [][(rpos' = rpos + 1 /\ Len(rin) > 0)
          => LET e == rin[(rpos % Len(rin)) + 1]
                 old == FindVault(vaults, e.addr)
                 prev == IF old = {} THEN BlankVault(e.addr)
                         ELSE CHOOSE v \in old : TRUE
                 new == FindVault(vaults', e.addr)
             IN  ~SameTransaction(vaults, e)
                    => /\ vaults' \ new = vaults \ old
                       /\ Cardinality(new) = 1
                       /\ \A n \in new :
                            /\ n.owner =
                                 CASE e.type = "NewVault" -> e.owner
                                   [] e.type = "VaultOwnerUpdated" -> e.newOwner
                                   [] OTHER -> prev.owner
                            /\ n.collateralAmount =
                                 CASE e.type \in {"NewVault", "Liquidate"} -> 0
                                   [] e.type \in AmountTypes -> e.coll
                                   [] OTHER -> prev.collateralAmount
                            /\ n.debtAmount =
                                 CASE e.type \in {"NewVault", "Liquidate"} -> 0
                                   [] e.type \in AmountTypes -> e.debt
                                   [] OTHER -> prev.debtAmount]_vars

\* A mint set vault A to (100, 30); an owner update of another transaction
\* then set the owner and the amounts are still (100, 30).
C14_Witness ==
    /\ Len(rin) = 2 /\ rpos = 2
    /\ rin[1].type = "MintZkUsd" /\ rin[1].addr = "A" /\ rin[1].coll = 100
    /\ rin[2].type = "VaultOwnerUpdated" /\ rin[2].addr = "A"
    /\ rin[1].hash # rin[2].hash
    /\ \E v \in vaults : /\ v.address = "A" /\ v.owner = rin[2].newOwner
                         /\ v.collateralAmount = 100 /\ v.debtAmount = 30

\* C23 (as claimed): every vault in the store has the address of a
\* NewVault event that updateFromEvent has been called with, and a step
\* never removes the vault of an address.
C23_VaultOnlyFromNewVault ==
    /\ [](\A v \in vaults :
            \E i \in 1..Len(rin) :
                /\ i <= rpos
                /\ rin[i].type = "NewVault" /\ rin[i].addr = v.address)
    /\ [][\A v \in vaults : \E w \in vaults' : w.address = v.address]_vars

\* C10: the ledger never holds two documents with the same
\* (transactionHash, chainStatus), whatever events are stored and however
\* two stores of one key overlap.
C10_LedgerKeyUnique ==
    \A i, j \in 1..Len(ledger) :
        (ledger[i].transactionHash = ledger[j].transactionHash
         /\ ledger[i].chainStatus = ledger[j].chainStatus) => i = j

\* Two overlapping stores of one key: one inserted, the other met the
\* duplicate key; and a store of a key already present updated it.
C10_Witness ==
    /\ Len(ledger) = 1
    /\ sc[1].last = "inserted"
    /\ sc[2].last \in {"duplicate", "updated"}

\* The document has the compound key of event e.
HasKeyOf(doc, e) ==
    doc.transactionHash = e.hash /\ doc.chainStatus = e.status

\* C11: a store of event e leaves every document whose key differs from
\* e's (same transactionHash with another chainStatus included) where and
\* as it was, and when no document has e's key it adds a document for e at
\* the end: the same hash with two statuses gives two documents.
C11_StatusesAreDistinctRows ==
    [][\A c \in 1..2 :
          (sc[c].pc = "write" /\ sc'[c].pc = "idle")
              => LET e == sc[c].req[1]
                 IN  /\ Len(ledger') >= Len(ledger)
                     /\ \A i \in 1..Len(ledger) :
                            ~HasKeyOf(ledger[i], e) => ledger'[i] = ledger[i]
                     /\ (\A i \in 1..Len(ledger) : ~HasKeyOf(ledger[i], e))
                            => /\ Len(ledger') = Len(ledger) + 1
                               /\ ledger'[Len(ledger')] = EventData(e)]_vars

\* One transaction stored as pending, then as included with other data:
\* two documents, the first still the pending one.
C11_Witness ==
    /\ Len(ledger) = 2
    /\ ledger[1].transactionHash = ledger[2].transactionHash
    /\ ledger[1].chainStatus = "pending"
    /\ ledger[2].chainStatus = "included"
    /\ ledger[1].type # ledger[2].type
    /\ \A c \in 1..2 : sc[c].pc = "idle"

(***************************************************************************)
(* Properties of the reconciler.                                           *)
(***************************************************************************)
\* One uninterrupted run of the loop of processEvents (lines 257-286) over
\* the events evs from position i, on ledger l and vaults vs.
RECURSIVE RunPass(_, _, _, _, _)
RunPass(evs, i, l, vs, now) ==
    IF i > Len(evs) THEN [ledger |-> l, vaults |-> vs]
    ELSE LET e == evs[i]
         IN  IF MatchEvent(l, e) # {}
             THEN RunPass(evs, i + 1, l, vs, now)
             ELSE RunPass(evs, i + 1, StoreFromEvent(l, e),
                          IF isVaultEvent(e.type)
                          THEN UpdateFromEventVaults(vs, e, now) ELSE vs,
                          now)

\* C12 (as claimed): once the later event (transaction h2) has updated
\* vault A, nothing the reconciler is delivered afterwards changes the
\* vault's owner, collateral, debt or latest transaction: the earlier
\* event (transaction h1) is not applied again.
C12_EarlierEventNotReapplied ==
    [][(\E v \in vaults : v.address = "A" /\ v.latestTransactionHash = "h2")
          => Aggregates(vaults') = Aggregates(vaults)]_vars

\* C16 (as claimed): the checkpoint's in-progress flag is true while a
\* pass is between reading the tracker and returning or raising (from
\* before the fetch on), and false at every other moment.
C16_InProgressBracketsPass ==
    \A k \in HandlerIds :
    /\ worker[k].pc \in PassPcs => InProgress(tracker)
    /\ worker[k].pc \in {"idle", "done", "failed"} => ~InProgress(tracker)

\* C20 (as claimed): what collectSubmissions returned for a block height
\* has exactly MaxParticipants submissions, each for that height and the fixed price;
\* slot i, for i up to the number of configured oracle keys, has the i-th
\* key's public key, that key's signature over (price, height) and is not
\* a dummy; every later slot has the dummy public key, the empty
\* signature and isDummy set.
C20_FixedAritySlotOrder ==
    collected # NoCollect
        => LET subs == collected.submissions
               keys == oracleCfg.oracleKeys
               h == collected.blockHeight
           IN  /\ Len(subs) = MaxParticipants
               /\ \A i \in 1..MaxParticipants :
                    /\ subs[i].blockHeight = h
                    /\ subs[i].price = OraclePrice
                    /\ IF i <= Len(keys)
                       THEN /\ subs[i].publicKey = keys[i].publicKey
                            /\ subs[i].signature =
                                   SignFields(<<OraclePrice, h>>,
                                              keys[i].privateKey)
                            /\ subs[i].isDummy = FALSE
                       ELSE /\ subs[i].publicKey = DummyPublicKey
                            /\ subs[i].signature = EmptySignature
                            /\ subs[i].isDummy = TRUE

\* C7: once an operation has raised inside a reconciliation pass, the
\* tracker document (lastProcessedBlock and lastProcessedAt) is the one the
\* pass found when it started.
C7_RaisedPassKeepsCheckpoint ==
    passRaised => tracker = passStart.tracker

\* A pass raised after it had stored an event of its batch, with the
\* tracker already advanced by an earlier pass.
C7_Witness ==
    \E k \in HandlerIds :
    /\ passRaised /\ worker[k].pc = "failed"
    /\ Len(ledger) > Len(passStart.ledger)
    /\ \E b \in tracker : b.lastProcessedBlock > 0

\* C8 (as claimed): after a pass that raised part-way and a successful
\* retry over the same events, the ledger and the VaultAggregates are what
\* one uninterrupted pass from the store of the first attempt produces.
C8_RetryEqualsUninterrupted ==
    (firstStart.phase = "retried" /\ passStart.events = firstStart.events) =>
        LET r == RunPass(firstStart.events, 1, firstStart.ledger,
                         firstStart.vaults, clock)
        IN  /\ ledger = r.ledger
            /\ Aggregates(vaults) = Aggregates(r.vaults)
====
